---- MODULE Spec2Model ----
(***************************************************************************)
(* A model of GenDoc's static extraction engine (src/gendoc/parser.py) and *)
(* of the schema-graph traversals of its renderers (src/gendoc/utils.py,   *)
(* src/gendoc/renderer.py).                                                *)
(*                                                                         *)
(* Python values are modelled as follows: a dict is a function whose       *)
(* domain is a set of strings (the empty dict is <<>>), a list is a        *)
(* sequence, a set is a set, None is the string None, and an AST node is a *)
(* record holding the attributes the visitors read.  A raised exception is *)
(* the flag "raised" of the value an operator returns.                     *)
(***************************************************************************)
EXTENDS Integers, Sequences, FiniteSets, TLC

VARIABLES
    \* --- one walk of MethodBodyVisitor over a handler method ---
    method_node,        \* the method body: the statements in walk order
    class_serializer,   \* the handler's declared default schema, or None
    method_name,        \* the verb method's name ("get", "post", ...)
    service_map,        \* the service map the analyzer consults
    hash_order,         \* the iteration order of a set of strings in this process
    visitor,            \* the MethodBodyVisitor's fields
    walk_pos,           \* index of the next statement to visit
    analysis            \* <<analyze_method_logic's return value>>, once computed

VARIABLES
    \* --- ViewVisitor.visit_ClassDef on one class ---
    class_node,         \* the class definition being visited
    view_pc,            \* "methods", "backfill", "register", then "done",
                        \* "skipped" (not a handler class) or "raised"
    item_pos,           \* index of the next item of the class body
    base_pos,           \* index of the next base of the backfill loop
    methods,            \* the methods dict under construction
    views               \* ViewVisitor.views

walkVars == <<method_node, class_serializer, method_name, service_map,
              hash_order, visitor, walk_pos, analysis>>

viewVars == <<class_node, view_pc, item_pos, base_pos, methods, views>>

\* the schema extractor on one class: the scanner object, the class, the
\* position in its body, the models map it was given
VARIABLES scanner, ser_node, ser_pc, ser_pos, models_map

serVars == <<scanner, ser_node, ser_pc, ser_pos, models_map>>

\* a traversal of the schema map: which traversal runs, the map, the call
\* stack (one frame per active call), the value the last call returned
VARIABLES trav_fn, trav_map, trav_stack, trav_ret

travVars == <<trav_fn, trav_map, trav_stack, trav_ret>>

\* scan_project: the files root.rglob enumerates (each a path and whether it
\* loads), the phase and the position of its loop, the aggregates, the
\* result; scan_run and first_result follow a second run on the same tree
VARIABLES root_access, scan_tree, scan_phase, scan_pos, all_views, all_urls, serializers_map,
          final_docs, scan_run, first_result

scanVars == <<root_access, scan_tree, scan_phase, scan_pos, all_views, all_urls, serializers_map,
              final_docs, scan_run, first_result>>

\* a field's type string: the name the extractor read, the string it stored
\* (wrapped for many=True), and what get_base_type made of the stored string
VARIABLES wrap_name, wrap_str, wrap_out, wrap_pc

wrapVars == <<wrap_name, wrap_str, wrap_out, wrap_pc>>

vars == <<walkVars, viewVars, serVars, travVars, scanVars, wrapVars>>

\* the variables a specification of one part leaves alone
outsideWalk == <<viewVars, serVars, travVars, scanVars, wrapVars>>
outsideView == <<method_node, method_name, visitor, walk_pos, analysis, serVars, travVars,
                 scanVars, wrapVars>>
outsideSer == <<walkVars, viewVars, travVars, scanVars, wrapVars>>
outsideTrav == <<walkVars, viewVars, serVars, scanVars, wrapVars>>
outsideScan == <<method_node, class_serializer, method_name, visitor, walk_pos, analysis,
                 viewVars, scanner, ser_node, ser_pc, ser_pos, travVars, wrapVars>>

(***************************************************************************)
(* Bounds of the model.                                                    *)
(***************************************************************************)
MaxBody == 3        \* statements in an analysed method body

(***************************************************************************)
(* Python helpers.                                                         *)
(***************************************************************************)
None == "None"

Falsy(x) == x \in {None, ""}

EmptyDict == <<>>

\* d[k] = v on a dict
DictSet(d, k, v) == [x \in DOMAIN d \cup {k} |-> IF x = k THEN v ELSE d[x]]

\* d.get(k), with None for an absent key
DictGet(d, k) == IF k \in DOMAIN d THEN d[k] ELSE None

Range(s) == {s[i] : i \in DOMAIN s}

RECURSIVE JoinComma(_)
\* ", ".join(keys)
JoinComma(keys) ==
    IF keys = <<>> THEN ""
    ELSE IF Len(keys) = 1 THEN keys[1]
    ELSE keys[1] \o ", " \o JoinComma(Tail(keys))

(***************************************************************************)
(* Type strings.  A type string is kept as a sequence of pieces: the       *)
(* characters L, i, s, t, [ and ] are one piece each, and an identifier    *)
(* made of other characters is one piece.  f"List[{t}]" puts the five      *)
(* characters of "List[" before the pieces of t and "]" after them.        *)
(***************************************************************************)
TypeName(name) == <<name>>

ListPrefix == <<"L", "i", "s", "t", "[">>

\* f"List[{t}]"
ListOf(t) == ListPrefix \o t \o <<"]">>

\* type_str.startswith("List[")
StartsWithList(t) == Len(t) >= Len(ListPrefix) /\ SubSeq(t, 1, Len(ListPrefix)) = ListPrefix

\* type_str.endswith("]")
EndsWithBracket(t) == Len(t) >= 1 /\ t[Len(t)] = "]"

\* type_str[5:]: the closing bracket is kept
SliceWithoutEnd(t) == SubSeq(t, 6, Len(t))

\* type_str[5:-1]
Slice(t) == SubSeq(t, 6, Len(t) - 1)

\* get_base_type: type_str[5:-1] when it starts with "List[" and ends with "]"
get_base_type(t) == IF StartsWithList(t) /\ EndsWithBracket(t) THEN Slice(t) ELSE t

(***************************************************************************)
(* AST nodes.  An expression node carries the attributes the visitors      *)
(* read:                                                                   *)
(*   node   "Call" | "Attribute" | "Subscript" | "Other"                   *)
(*   func   for a Call: "Name" (f(...)) or "Attribute" (x.f(...))          *)
(*   base   the kind of the receiver: "Name" (x) or "Attribute" (x.y)      *)
(*   id     the Name's id (the func of f(...), or the receiver x)          *)
(*   battr  the receiver's attribute y of x.y                              *)
(*   attr   the attribute or method name                                   *)
(*   key    the literal string of the subscript or of the first argument   *)
(*          ("" when there is none or it is not a literal)                 *)
(*   arg    what is passed: "none", "kw_data" (data=...), "kw_partial",    *)
(*          "kw_request_data" (other keyword = request.data),              *)
(*          "pos_request_data" (request.data), "pos_request" (request),    *)
(*          "kw_request" (request=request), "pos_other"                    *)
(*   pnode, pid, pkeys   the payload of Response(...): "none", "Name",     *)
(*          "NameData" (x.data), "CallData" (S(...).data), "Dict", "Other" *)
(*   skw, scode  the status keyword: "none", "symbolic" (HTTP_<scode>_..), *)
(*          "literal" (the integer scode), "other"                         *)
(* A dictionary key is [k |-> "str" | "num" | "name" | "spread", v |-> s]. *)
(* A statement is [stmt |-> "Assign" | "Expr" | "Return", target, value].  *)
(***************************************************************************)
NoExpr ==
    [node |-> "Other", func |-> "", base |-> "", id |-> "", battr |-> "",
     attr |-> "", key |-> "", arg |-> "none",
     pnode |-> "none", pid |-> "", pkeys |-> <<>>, skw |-> "none", scode |-> ""]

\* S(...)
SerCall(cls, arg) ==
    [NoExpr EXCEPT !.node = "Call", !.func = "Name", !.id = cls, !.arg = arg]

\* self.get_serializer(...)
GetSerializerCall(arg) ==
    [NoExpr EXCEPT !.node = "Call", !.func = "Attribute", !.base = "Name",
                   !.id = "self", !.attr = "get_serializer", !.arg = arg]

\* x.attr
NameAttr(x, attr) ==
    [NoExpr EXCEPT !.node = "Attribute", !.base = "Name", !.id = x, !.attr = attr]

\* x[key]
NameSubscript(x, key) ==
    [NoExpr EXCEPT !.node = "Subscript", !.base = "Name", !.id = x, !.key = key]

\* x.battr[key]
AttrSubscript(x, battr, key) ==
    [NoExpr EXCEPT !.node = "Subscript", !.base = "Attribute", !.id = x,
                   !.battr = battr, !.key = key]

\* x.attr(key or argument)
NameMethodCall(x, attr, key, arg) ==
    [NoExpr EXCEPT !.node = "Call", !.func = "Attribute", !.base = "Name",
                   !.id = x, !.attr = attr, !.key = key, !.arg = arg]

\* x.battr.attr(key)
AttrMethodCall(x, battr, attr, key) ==
    [NoExpr EXCEPT !.node = "Call", !.func = "Attribute", !.base = "Attribute",
                   !.id = x, !.battr = battr, !.attr = attr, !.key = key]

\* Response(payload, status=...)
ResponseCall(pnode, pid, pkeys, skw, scode) ==
    [NoExpr EXCEPT !.node = "Call", !.func = "Name", !.id = "Response",
                   !.pnode = pnode, !.pid = pid, !.pkeys = pkeys,
                   !.skw = skw, !.scode = scode]

StrKey(s) == [k |-> "str", v |-> s]
NameKey(s) == [k |-> "name", v |-> s]
NumKey(s) == [k |-> "num", v |-> s]

Assign(target, value) == [stmt |-> "Assign", target |-> target, value |-> value]
ExprStmt(value) == [stmt |-> "Expr", target |-> "", value |-> value]
Return(value) == [stmt |-> "Return", target |-> "", value |-> value]

\* "Serializer" in name, for the names of the model
HasSerializerMarker(name) ==
    name \in {"UserSerializer", "OutSerializer", "InSerializer", "ProfileSerializer"}

QueryParamAttrs == {"query_params", "GET"}


(***************************************************************************)
(* MethodBodyVisitor: the intraprocedural analyzer of one handler method.  *)
(***************************************************************************)
\* MethodBodyVisitor.__init__
NewVisitor(cs, name, smap) ==
    [class_serializer |-> cs,
     method_name |-> name,
     service_map |-> smap,
     vars |-> EmptyDict,
     input_serializer |-> None,
     input_source |-> None,
     responses |-> EmptyDict,
     serializer_used |-> FALSE,
     raw_input_fields |-> {},
     query_params |-> {},
     query_param_aliases |-> {},
     raised |-> FALSE]

\* MethodBodyVisitor._register_var
RegisterVar(v, name, class_name, var_type) ==
    [v EXCEPT !.vars = DictSet(v.vars, name, [class |-> class_name, type |-> var_type])]

\* MethodBodyVisitor._get_var: HasVar is "info is not None", GetVar the info
HasVar(v, name) == name \in DOMAIN v.vars

GetVar(v, name) == v.vars[name]

\* for target in node.targets: if isinstance(target, ast.Name): register
RegisterTarget(v, target, class_name, var_type) ==
    IF target = "" THEN v ELSE RegisterVar(v, target, class_name, var_type)

\* the is_input test of visit_Assign: a data keyword, or request.data passed
\* as a keyword value or as a positional argument
IsInputArg(arg) == arg \in {"kw_data", "kw_request_data", "pos_request_data"}

\* kw.value.value.id of a keyword whose value is x.y.z: x.y has no id
IsInputRaises(arg) == arg = "kw_nested_attr"

\* the guard dropped: an input schema is recorded whatever is recorded
InputAlwaysUnset(v) == TRUE

\* "not self.input_serializer"
InputUnset(v) == Falsy(v.input_serializer)

\* the guard dropped: the status slot counts as empty whatever it holds
SlotAlwaysAbsent(v, code) == TRUE

\* '"200" not in self.responses'
SlotAbsent(v, code) == code \notin DOMAIN v.responses

\* the first branch of visit_Assign: qp = request.query_params / request.GET
AssignAlias(v, node) ==
    IF /\ node.value.node = "Attribute"
       /\ node.value.base = "Name"
       /\ node.value.id = "request"
       /\ node.value.attr \in QueryParamAttrs
       /\ node.target # ""
    THEN [v EXCEPT !.query_param_aliases = @ \cup {node.target}]
    ELSE v

\* func_name of visit_Assign: the constructor's name, or the class default
\* for self.get_serializer(...)
AssignFuncName(v, value) ==
    IF value.func = "Name" THEN value.id
    ELSE IF value.func = "Attribute" /\ value.attr = "get_serializer"
    THEN v.class_serializer
    ELSE None

\* the serializer / .data branches of visit_Assign
AssignBinding(v, node) ==
    LET value == node.value IN
    IF value.node = "Call" THEN
        LET func_name == AssignFuncName(v, value) IN
        IF ~Falsy(func_name) /\ HasSerializerMarker(func_name) THEN
            LET v1 == RegisterTarget([v EXCEPT !.serializer_used = TRUE],
                                     node.target, func_name, "instance") IN
            IF IsInputRaises(value.arg) THEN [v1 EXCEPT !.raised = TRUE]
            ELSE IF IsInputArg(value.arg) /\ InputUnset(v1)
            THEN [v1 EXCEPT !.input_serializer = func_name,
                            !.input_source = "direct"]
            ELSE v1
        ELSE v
    ELSE IF value.node = "Attribute" /\ value.attr = "data" /\ value.base = "Name" THEN
        IF HasVar(v, value.id) /\ GetVar(v, value.id).type = "instance"
        THEN RegisterTarget(v, node.target, GetVar(v, value.id).class, "data")
        ELSE v
    ELSE v

\* MethodBodyVisitor.visit_Subscript
visit_Subscript(v, node) ==
    IF node.base = "Attribute" /\ node.id = "request" THEN
        IF node.battr = "data" THEN
            IF node.key # "" THEN [v EXCEPT !.raw_input_fields = @ \cup {node.key}]
            ELSE v
        ELSE IF node.battr \in QueryParamAttrs THEN
            IF node.key # "" THEN [v EXCEPT !.query_params = @ \cup {node.key}]
            ELSE v
        ELSE v
    ELSE IF node.base = "Name" /\ node.id \in v.query_param_aliases THEN
        IF node.key # "" THEN [v EXCEPT !.query_params = @ \cup {node.key}]
        ELSE v
    ELSE v

\* the key of a service call: f"{node.func.value.id}.{node.func.attr}"
ServiceKey(node) == node.id \o "." \o node.attr

\* the "Service calls" branch of visit_Call
ServiceMerge(v, node) ==
    LET key == ServiceKey(node) IN
    IF key \in DOMAIN v.service_map THEN
        LET info == v.service_map[key]
            v1 == IF InputUnset(v) /\ ~Falsy(info.input)
                  THEN [v EXCEPT !.input_serializer = info.input,
                                 !.input_source = "service:" \o key]
                  ELSE v
            v2 == IF ~Falsy(info.output) /\ SlotAbsent(v1, "200")
                  THEN [v1 EXCEPT !.responses =
                            DictSet(@, "200", [serializer |-> info.output,
                                               source |-> "service:" \o key])]
                  ELSE v1
            request_passed == node.arg = "pos_request"
        IN  IF request_passed /\ info.query_params # <<>>
            THEN [v2 EXCEPT !.query_params = @ \cup Range(info.query_params)]
            ELSE v2
    ELSE v

\* MethodBodyVisitor.visit_Call
visit_Call(v, node) ==
    IF node.func = "Attribute" THEN
        IF node.attr = "get" THEN
            IF node.base = "Attribute" /\ node.id = "request" THEN
                IF node.battr = "data" THEN
                    IF node.key # "" THEN [v EXCEPT !.raw_input_fields = @ \cup {node.key}]
                    ELSE v
                ELSE IF node.battr \in QueryParamAttrs THEN
                    IF node.key # "" THEN [v EXCEPT !.query_params = @ \cup {node.key}]
                    ELSE v
                ELSE v
            ELSE IF node.base = "Name" /\ node.id \in v.query_param_aliases THEN
                IF node.key # "" THEN [v EXCEPT !.query_params = @ \cup {node.key}]
                ELSE v
            ELSE v
        ELSE IF node.base = "Name" THEN ServiceMerge(v, node)
        ELSE v
    ELSE v

\* NodeVisitor.generic_visit on the value of a statement: the visitor's
\* method for the node's class, when it has one
visit_value(v, value) ==
    IF v.raised THEN v
    ELSE IF value.node = "Call" THEN visit_Call(v, value)
    ELSE IF value.node = "Subscript" THEN visit_Subscript(v, value)
    ELSE v

\* whether the assignment binds its target: a schema construction, or .data
\* of a name bound to an instance
Binds(v, node) ==
    LET value == node.value IN
    \/ /\ value.node = "Call"
       /\ ~Falsy(AssignFuncName(v, value))
       /\ HasSerializerMarker(AssignFuncName(v, value))
    \/ /\ value.node = "Attribute" /\ value.attr = "data" /\ value.base = "Name"
       /\ HasVar(v, value.id)
       /\ GetVar(v, value.id).type = "instance"

\* an assignment that forgets the binding of a target it does not bind
visit_AssignForgets(v, node) ==
    LET w == visit_value(AssignBinding(AssignAlias(v, node), node), node.value) IN
    IF Binds(v, node) THEN w
    ELSE [w EXCEPT !.vars = [n \in DOMAIN w.vars \ {node.target} |-> w.vars[n]]]

\* MethodBodyVisitor.visit_Assign
visit_Assign(v, node) ==
    visit_value(AssignBinding(AssignAlias(v, node), node), node.value)


\* the status of a Response: HTTP_(\d+) searched in the dump of the status
\* keyword's value, "200" when it does not match or there is no keyword
ResolveStatus(e) == IF e.skw = "symbolic" THEN e.scode ELSE "200"

\* "found" of visit_Return: the schema class the payload resolves to, or None
ReturnFound(v, e) ==
    IF e.pnode = "Name" THEN
        IF HasVar(v, e.pid) THEN GetVar(v, e.pid).class ELSE None
    ELSE IF e.pnode = "NameData" THEN
        IF HasVar(v, e.pid) THEN GetVar(v, e.pid).class ELSE None
    ELSE IF e.pnode = "CallData" THEN
        IF HasSerializerMarker(e.pid) THEN e.pid ELSE None
    ELSE None

\* the keys of a dictionary literal that are not a ** spread ("if k")
DictKeyNodes(pkeys) == SelectSeq(pkeys, LAMBDA k : k.k # "spread")

\* k.s of a key that is no constant, or join() of a key that is no string
DictLabelRaises(pkeys) ==
    \E i \in DOMAIN DictKeyNodes(pkeys) : DictKeyNodes(pkeys)[i].k # "str"

\* the label of a dictionary literal
DictLabel(pkeys) ==
    LET nodes == DictKeyNodes(pkeys)
        keys == [i \in DOMAIN nodes |-> nodes[i].v]
    IN  IF keys # <<>> THEN "Object {" \o JoinComma(keys) \o "}" ELSE "DynamicObject"

\* whether a Response return writes an entry, and the descriptor it writes
ReturnWrites(v, e) ==
    \/ ReturnFound(v, e) # None
    \/ ResolveStatus(e) = "204"
    \/ e.pnode = "Dict" /\ ~DictLabelRaises(e.pkeys)

ReturnEntry(v, e) ==
    IF ReturnFound(v, e) # None
    THEN [serializer |-> ReturnFound(v, e), source |-> "inferred"]
    ELSE IF ResolveStatus(e) = "204"
    THEN [serializer |-> "NoContent", source |-> "status"]
    ELSE [serializer |-> DictLabel(e.pkeys), source |-> "raw_dict"]

IsResponseCall(e) == e.node = "Call" /\ e.func = "Name" /\ e.id = "Response"

\* self.responses[status] = entry
StoreResponseIfAbsent(v, status, entry) ==
    IF status \in DOMAIN v.responses THEN v
    ELSE [v EXCEPT !.responses = DictSet(@, status, entry)]

\* a store that leaves an entry a service call recorded
StoreResponseKeepsService(v, status, entry) ==
    IF /\ status \in DOMAIN v.responses
       /\ v.responses[status].source \in {"service:" \o k : k \in DOMAIN v.service_map}
    THEN v
    ELSE [v EXCEPT !.responses = DictSet(@, status, entry)]

StoreResponse(v, status, entry) ==
    [v EXCEPT !.responses = DictSet(@, status, entry)]

\* MethodBodyVisitor.visit_Return
visit_Return(v, node) ==
    LET e == node.value
        v1 == IF IsResponseCall(e) THEN
                  IF ReturnWrites(v, e)
                  THEN StoreResponse(v, ResolveStatus(e), ReturnEntry(v, e))
                  ELSE IF e.pnode = "Dict" THEN [v EXCEPT !.raised = TRUE]
                  ELSE v
              ELSE v
    IN  visit_value(v1, e)

\* NodeVisitor.visit on one statement of the method body
visit_stmt(v, node) ==
    IF node.stmt = "Assign" THEN visit_Assign(v, node)
    ELSE IF node.stmt = "Return" THEN visit_Return(v, node)
    ELSE visit_value(v, node.value)

RECURSIVE WalkFrom(_, _, _)
\* visitor.visit(method_node): the statements in order, up to a raise
WalkFrom(v, body, i) ==
    IF i > Len(body) \/ v.raised THEN v
    ELSE WalkFrom(visit_stmt(v, body[i]), body, i + 1)

\* list(a_set): the set's elements in this process's iteration order
ListOfSet(S) == SelectSeq(hash_order, LAMBDA k : k \in S)

\* sorted(a_set) of strings, for the keys of the model
SortedOrder == <<"email", "name", "page", "q">>

Sorted(S) == SelectSeq(SortedOrder, LAMBDA k : k \in S)

\* the fallback scan of analyze_method_logic: some request.data in the body
UsesRequestData(body) ==
    \E i \in DOMAIN body :
        LET e == body[i].value IN
        \/ e.base = "Attribute" /\ e.id = "request" /\ e.battr = "data"
        \/ e.node = "Attribute" /\ e.id = "request" /\ e.attr = "data"
        \/ e.arg \in {"kw_data", "kw_request_data", "pos_request_data"}

\* the post-processing without the test of serializer_used: raw keys win
\* over a schema that was bound but not recorded as input
PostProcessIgnoresBinding(v, body) ==
    IF Falsy(v.input_serializer) /\ v.raw_input_fields # {}
    THEN [v EXCEPT !.input_serializer =
                       "RawBody {" \o JoinComma(Sorted(v.raw_input_fields)) \o "}",
                   !.input_source = "direct_raw_keys"]
    ELSE v

\* the post-processing of analyze_method_logic on the walked visitor
PostProcess(v, body) ==
    IF Falsy(v.input_serializer) /\ ~v.serializer_used THEN
        IF v.raw_input_fields # {} THEN
            [v EXCEPT !.input_serializer =
                          "RawBody {" \o JoinComma(Sorted(v.raw_input_fields)) \o "}",
                      !.input_source = "direct_raw_keys"]
        ELSE IF UsesRequestData(body) THEN
            [v EXCEPT !.input_serializer = "RawBody", !.input_source = "direct_raw"]
        ELSE v
    ELSE v

\* the value analyze_method_logic returns for a walked visitor
AnalysisOf(v, body) ==
    LET w == PostProcess(v, body) IN
    [raised |-> FALSE,
     request |-> <<w.input_serializer, w.input_source>>,
     responses |-> w.responses,
     query_params |-> ListOfSet(w.query_params)]

AnalysisRaised ==
    [raised |-> TRUE, request |-> <<None, None>>, responses |-> EmptyDict,
     query_params |-> <<>>]

\* analyze_method_logic
analyze_method_logic(body, cs, name, smap) ==
    LET v == WalkFrom(NewVisitor(cs, name, smap), body, 1) IN
    IF v.raised THEN AnalysisRaised ELSE AnalysisOf(v, body)


(***************************************************************************)
(* The parts of the program a specification does not exercise stay idle.   *)
(***************************************************************************)
IdleWalk ==
    /\ method_node = <<>>
    /\ method_name = ""
    /\ visitor = NewVisitor(None, "", EmptyDict)
    /\ walk_pos = 1
    /\ analysis = <<>>

IdleView ==
    /\ class_node = <<>>
    /\ view_pc = "idle"
    /\ item_pos = 1
    /\ base_pos = 1
    /\ methods = EmptyDict
    /\ views = EmptyDict

IdleSer ==
    /\ scanner = <<>>
    /\ ser_node = <<>>
    /\ ser_pc = "idle"
    /\ ser_pos = 1
    /\ models_map = EmptyDict

IdleTrav ==
    /\ trav_fn = "none"
    /\ trav_map = EmptyDict
    /\ trav_stack = <<>>
    /\ trav_ret = None

IdleWrap ==
    /\ wrap_name = <<>>
    /\ wrap_str = <<>>
    /\ wrap_out = <<>>
    /\ wrap_pc = "idle"

IdleScan ==
    /\ root_access = "ok"
    /\ scan_tree = <<>>
    /\ scan_phase = "idle"
    /\ scan_pos = 1
    /\ all_views = EmptyDict
    /\ all_urls = <<>>
    /\ serializers_map = EmptyDict
    /\ final_docs = <<>>
    /\ scan_run = 1
    /\ first_result = <<>>

(***************************************************************************)
(* The walk of one handler method, one statement per step.                 *)
(***************************************************************************)
\* the iteration orders of a set of query-parameter keys: the hash seed of
\* the process decides which one a run sees
HashOrders == {<<"page", "q">>, <<"q", "page">>}

\* the service map of the walks: UserService.create declares both schemas
\* and reads two query parameters, UserService.get declares an output only
WalkServiceMap ==
    [x \in {"UserService.create", "UserService.get"} |->
        IF x = "UserService.create"
        THEN [input |-> "InSerializer", output |-> "OutSerializer",
              query_params |-> ListOfSet({"page", "q"})]
        ELSE [input |-> None, output |-> "ProfileSerializer", query_params |-> <<>>]]

\* the statements a walked method body is made of
WalkStatements ==
    { Assign("serializer", SerCall("UserSerializer", "kw_data")),
      Assign("out", SerCall("OutSerializer", "pos_other")),
      Assign("data", NameAttr("serializer", "data")),
      Assign("qp", NameAttr("request", "query_params")),
      Assign("email", AttrSubscript("request", "data", "email")),
      Assign("page", NameSubscript("qp", "page")),
      ExprStmt(NameMethodCall("UserService", "create", "", "pos_request")),
      Return(ResponseCall("NameData", "serializer", <<>>, "none", "")),
      Return(ResponseCall("NameData", "out", <<>>, "symbolic", "200")),
      Return(ResponseCall("Dict", "", <<StrKey("ok")>>, "none", "")),
      Return(ResponseCall("Name", "errors", <<>>, "symbolic", "400")),
      Return(ResponseCall("Dict", "", <<StrKey("detail")>>, "symbolic", "400")),
      Return(ResponseCall("none", "", <<>>, "symbolic", "204")),
      Return(ResponseCall("Dict", "", <<NameKey("k")>>, "none", "")) }

WalkBodies == UNION {[1..n -> WalkStatements] : n \in 0..MaxBody}

InitWalk ==
    /\ method_node \in WalkBodies
    /\ class_serializer = "UserSerializer"
    /\ method_name = "post"
    /\ hash_order \in HashOrders
    /\ service_map = WalkServiceMap
    /\ visitor = NewVisitor(class_serializer, method_name, service_map)
    /\ walk_pos = 1
    /\ analysis = <<>>
    /\ IdleView
    /\ IdleSer
    /\ IdleTrav
    /\ IdleScan
    /\ IdleWrap

Walking == walk_pos <= Len(method_node) /\ ~visitor.raised

WalkAssign ==
    /\ Walking
    /\ method_node[walk_pos].stmt = "Assign"
    /\ visitor' = visit_Assign(visitor, method_node[walk_pos])
    /\ walk_pos' = walk_pos + 1
    /\ UNCHANGED <<method_node, class_serializer, method_name, service_map,
                   hash_order, analysis>>
    /\ UNCHANGED outsideWalk

WalkExpr ==
    /\ Walking
    /\ method_node[walk_pos].stmt = "Expr"
    /\ visitor' = visit_value(visitor, method_node[walk_pos].value)
    /\ walk_pos' = walk_pos + 1
    /\ UNCHANGED <<method_node, class_serializer, method_name, service_map,
                   hash_order, analysis>>
    /\ UNCHANGED outsideWalk

WalkReturn ==
    /\ Walking
    /\ method_node[walk_pos].stmt = "Return"
    /\ visitor' = visit_Return(visitor, method_node[walk_pos])
    /\ walk_pos' = walk_pos + 1
    /\ UNCHANGED <<method_node, class_serializer, method_name, service_map,
                   hash_order, analysis>>
    /\ UNCHANGED outsideWalk

\* the walk is over: analyze_method_logic post-processes and returns
AnalyzeReturn ==
    /\ walk_pos = Len(method_node) + 1
    /\ ~visitor.raised
    /\ analysis = <<>>
    /\ analysis' = <<AnalysisOf(visitor, method_node)>>
    /\ UNCHANGED <<method_node, class_serializer, method_name, service_map,
                   hash_order, visitor, walk_pos>>
    /\ UNCHANGED outsideWalk

NextWalk == WalkAssign \/ WalkExpr \/ WalkReturn \/ AnalyzeReturn

SpecWalk == InitWalk /\ [][NextWalk]_vars

\* the service map of the walks of service calls: every service declares an
\* output schema, UserService.create and UserService.get an input schema too
CallServiceMap ==
    [x \in {"UserService.create", "UserService.get", "OrderManager.find"} |->
        CASE x = "UserService.create" ->
                 [input |-> "InSerializer", output |-> "OutSerializer",
                  query_params |-> ListOfSet({"page", "q"})]
          [] x = "UserService.get" ->
                 [input |-> "ProfileSerializer", output |-> "ProfileSerializer",
                  query_params |-> <<>>]
          [] x = "OrderManager.find" ->
                 [input |-> None, output |-> "UserSerializer", query_params |-> <<>>]]

\* the statements of a method body that binds schemas and calls services
CallStatements ==
    { Assign("serializer", SerCall("UserSerializer", "kw_data")),
      Assign("form", SerCall("ProfileSerializer", "pos_request_data")),
      ExprStmt(NameMethodCall("UserService", "create", "", "pos_request")),
      ExprStmt(NameMethodCall("UserService", "get", "", "pos_request")),
      Assign("order", NameMethodCall("OrderManager", "find", "", "pos_other")),
      ExprStmt(NameMethodCall("OrderManager", "count", "", "pos_other")),
      Return(ResponseCall("NameData", "serializer", <<>>, "none", "")),
      Return(ResponseCall("Dict", "", <<StrKey("detail")>>, "symbolic", "400")) }

InitCalls ==
    /\ method_node \in UNION {[1..n -> CallStatements] : n \in 0..MaxBody}
    /\ class_serializer = "UserSerializer"
    /\ method_name = "post"
    /\ hash_order \in HashOrders
    /\ service_map = CallServiceMap
    /\ visitor = NewVisitor(class_serializer, method_name, service_map)
    /\ walk_pos = 1
    /\ analysis = <<>>
    /\ IdleView
    /\ IdleSer
    /\ IdleTrav
    /\ IdleScan
    /\ IdleWrap

SpecCalls == InitCalls /\ [][NextWalk]_vars

\* the statements of a method body that reads the request body and returns
\* responses: bindings, raw reads, a service call, and returns whose payload
\* and status keyword vary
BodyStatements ==
    { Assign("serializer", SerCall("UserSerializer", "kw_data")),
      Assign("out", SerCall("OutSerializer", "pos_other")),
      Assign("email", AttrSubscript("request", "data", "email")),
      ExprStmt(AttrMethodCall("request", "data", "get", "name")),
      Assign("raw", NameAttr("request", "data")),
      ExprStmt(NameMethodCall("UserService", "create", "", "pos_other")),
      Return(ResponseCall("NameData", "out", <<>>, "literal", "201")),
      Return(ResponseCall("NameData", "out", <<>>, "symbolic", "201")),
      Return(ResponseCall("Dict", "", <<StrKey("ok"), StrKey("id")>>, "none", "")),
      Return(ResponseCall("Dict", "", <<StrKey("ok")>>, "symbolic", "204")),
      Return(ResponseCall("none", "", <<>>, "symbolic", "204")),
      Return(ResponseCall("Dict", "", <<NameKey("k")>>, "none", "")),
      Return(ResponseCall("Dict", "", <<StrKey("ok"), NumKey("1")>>, "symbolic", "400")) }

InitBodies ==
    /\ method_node \in UNION {[1..n -> BodyStatements] : n \in 0..MaxBody}
    /\ class_serializer = "UserSerializer"
    /\ method_name = "post"
    /\ hash_order \in HashOrders
    /\ service_map = WalkServiceMap
    /\ visitor = NewVisitor(class_serializer, method_name, service_map)
    /\ walk_pos = 1
    /\ analysis = <<>>
    /\ IdleView
    /\ IdleSer
    /\ IdleTrav
    /\ IdleScan
    /\ IdleWrap

SpecBodies == InitBodies /\ [][NextWalk]_vars

\* the statements of a method body that binds, rebinds and returns names:
\*   s = UserSerializer(obj); s = OutSerializer(obj); s = 5;
\*   s = OrderManager.find(obj); d = s.data; d = other.data; s = d.data;
\*   UserSerializer(obj);
\*   return Response(s); return Response(s.data); return Response(d)
BindStatements ==
    { Assign("s", SerCall("UserSerializer", "pos_other")),
      Assign("s", SerCall("OutSerializer", "pos_other")),
      Assign("s", NoExpr),
      Assign("s", NameMethodCall("OrderManager", "find", "", "pos_other")),
      Assign("d", NameAttr("s", "data")),
      Assign("d", NameAttr("other", "data")),
      Assign("s", NameAttr("d", "data")),
      ExprStmt(SerCall("UserSerializer", "pos_other")),
      Return(ResponseCall("Name", "s", <<>>, "none", "")),
      Return(ResponseCall("NameData", "s", <<>>, "none", "")),
      Return(ResponseCall("Name", "d", <<>>, "none", "")) }

InitBinds ==
    /\ method_node \in UNION {[1..n -> BindStatements] : n \in 0..MaxBody}
    /\ class_serializer = None
    /\ method_name = "get"
    /\ hash_order \in HashOrders
    /\ service_map = WalkServiceMap
    /\ visitor = NewVisitor(class_serializer, method_name, service_map)
    /\ walk_pos = 1
    /\ analysis = <<>>
    /\ IdleView
    /\ IdleSer
    /\ IdleTrav
    /\ IdleScan
    /\ IdleWrap

SpecBinds == InitBinds /\ [][NextWalk]_vars

\* the service map of the walks of query parameters: each service declares
\* one query-parameter key and no schema
QueryServiceMap ==
    [x \in {"UserService.search", "UserService.page"} |->
        [input |-> None, output |-> None,
         query_params |-> IF x = "UserService.search" THEN <<"q">> ELSE <<"page">>]]

\* the statements of a method body that reads query parameters and calls
\* services with and without the request
QueryStatements ==
    { Assign("qp", NameAttr("request", "query_params")),
      Assign("page", NameSubscript("qp", "page")),
      ExprStmt(NameMethodCall("qp", "get", "q", "none")),
      Assign("q", AttrSubscript("request", "GET", "q")),
      ExprStmt(AttrMethodCall("request", "query_params", "get", "page")),
      ExprStmt(NameMethodCall("UserService", "search", "", "pos_request")),
      ExprStmt(NameMethodCall("UserService", "search", "", "kw_request")),
      ExprStmt(NameMethodCall("UserService", "search", "", "pos_other")),
      ExprStmt(NameMethodCall("UserService", "page", "", "pos_request")),
      ExprStmt(NameMethodCall("OrderManager", "count", "", "pos_request")),
      Return(ResponseCall("Dict", "", <<StrKey("ok")>>, "none", "")) }

InitQuery ==
    /\ method_node \in UNION {[1..n -> QueryStatements] : n \in 0..MaxBody}
    /\ class_serializer = None
    /\ method_name = "get"
    /\ hash_order \in HashOrders
    /\ service_map = QueryServiceMap
    /\ visitor = NewVisitor(class_serializer, method_name, service_map)
    /\ walk_pos = 1
    /\ analysis = <<>>
    /\ IdleView
    /\ IdleSer
    /\ IdleTrav
    /\ IdleScan
    /\ IdleWrap

SpecQuery == InitQuery /\ [][NextWalk]_vars


(***************************************************************************)
(* Claims about the walk of one method (specification SpecWalk).           *)
(***************************************************************************)
StatusCodes == {"200", "201", "204", "400"}

Max(S) == CHOOSE x \in S : \A y \in S : y <= x

WalkReturned == analysis # <<>>

\* the visitor as it is when statement i of the body is reached
VisitorBefore(i) ==
    WalkFrom(NewVisitor(class_serializer, method_name, service_map),
             SubSeq(method_node, 1, i - 1), 1)

\* the return Response(...) statements of the body that target status s
ResponseReturns(s) ==
    {i \in DOMAIN method_node :
        /\ method_node[i].stmt = "Return"
        /\ IsResponseCall(method_node[i].value)
        /\ ResolveStatus(method_node[i].value) = s}

\* those of them that resolve a descriptor (a schema, a dictionary label,
\* or NoContent for status 204)
WritingReturns(s) ==
    {i \in ResponseReturns(s) : ReturnWrites(VisitorBefore(i), method_node[i].value)}

\* C3 as stated: after the walk, every status some return Response(...)
\* targets has an entry, and it is the descriptor of the last return (in walk
\* order) that targets the status, whatever that return's payload is.
C3_LastReturnWins ==
    WalkReturned =>
        \A s \in StatusCodes :
            ResponseReturns(s) # {} =>
                LET i == Max(ResponseReturns(s)) IN
                /\ ReturnWrites(VisitorBefore(i), method_node[i].value)
                /\ s \in DOMAIN analysis[1].responses
                /\ analysis[1].responses[s] =
                       ReturnEntry(VisitorBefore(i), method_node[i].value)

\* C3 amended: after a walk that completes, the entry of a status is the
\* descriptor of the last return Response(...) that targets the status and
\* resolves a descriptor; a return that resolves none (an unbound name or
\* any other payload that is no schema and no dictionary literal, with a
\* status other than 204) writes nothing, so a status only such returns
\* target has no return-derived entry.
C3_LastWritingReturnWins ==
    WalkReturned =>
        \A s \in StatusCodes :
            IF WritingReturns(s) # {}
            THEN LET i == Max(WritingReturns(s)) IN
                 /\ s \in DOMAIN analysis[1].responses
                 /\ analysis[1].responses[s] =
                        ReturnEntry(VisitorBefore(i), method_node[i].value)
            ELSE \/ s \notin DOMAIN analysis[1].responses
                 \/ analysis[1].responses[s].source
                        \notin {"inferred", "status", "raw_dict"}

\* C3 witness: a completed walk in which two returns wrote different
\* descriptors for the same status
C3_Witness ==
    /\ WalkReturned
    /\ \E s \in StatusCodes : \E i, j \in WritingReturns(s) :
           /\ i < j
           /\ ReturnEntry(VisitorBefore(i), method_node[i].value)
                  # ReturnEntry(VisitorBefore(j), method_node[j].value)


(***************************************************************************)
(* ViewVisitor: the handler extractor.                                     *)
(*                                                                         *)
(* A class definition is a record: name, bases (each [kind |-> "Name" |    *)
(* "Attribute", id]), doc (the docstring or None), serializer_class (the   *)
(* Name assigned to serializer_class, or None), get_serializer_class (the  *)
(* Name returned by a get_serializer_class method, or None),               *)
(* permission_classes, and body (the function definitions, in order).      *)
(***************************************************************************)
GenericNames ==
    {"ListAPIView", "RetrieveAPIView", "CreateAPIView", "UpdateAPIView",
     "DestroyAPIView", "ListCreateAPIView", "RetrieveUpdateAPIView",
     "RetrieveDestroyAPIView", "RetrieveUpdateDestroyAPIView", "ModelViewSet",
     "ReadOnlyModelViewSet", "ViewSet", "GenericViewSet"}

GENERIC_DEFAULTS ==
    [b \in GenericNames |->
        [methods |->
            CASE b = "ListAPIView" -> <<"GET">>
              [] b = "RetrieveAPIView" -> <<"GET">>
              [] b = "CreateAPIView" -> <<"POST">>
              [] b = "UpdateAPIView" -> <<"PUT", "PATCH">>
              [] b = "DestroyAPIView" -> <<"DELETE">>
              [] b = "ListCreateAPIView" -> <<"GET", "POST">>
              [] b = "RetrieveUpdateAPIView" -> <<"GET", "PUT", "PATCH">>
              [] b = "RetrieveDestroyAPIView" -> <<"GET", "DELETE">>
              [] b = "RetrieveUpdateDestroyAPIView" -> <<"GET", "PUT", "PATCH", "DELETE">>
              [] b = "ModelViewSet" -> <<"GET", "POST", "PUT", "PATCH", "DELETE">>
              [] b = "ReadOnlyModelViewSet" -> <<"GET">>
              [] b = "ViewSet" -> <<>>
              [] b = "GenericViewSet" -> <<>>]]

\* "APIView" in b.id, for the base names of the model
HasAPIViewMarker(id) ==
    id \in {"APIView", "ListAPIView", "RetrieveAPIView", "CreateAPIView",
            "UpdateAPIView", "DestroyAPIView", "ListCreateAPIView",
            "RetrieveUpdateAPIView", "RetrieveDestroyAPIView",
            "RetrieveUpdateDestroyAPIView"}

NameBase(id) == [kind |-> "Name", id |-> id]
AttributeBase(id) == [kind |-> "Attribute", id |-> id]

\* the items of a class body: a method, a field assignment, a Meta class
FunctionDef(name, body) ==
    [kind |-> "FunctionDef", name |-> name, args |-> <<"self", "request">>, body |-> body]

NoClass ==
    [name |-> "", bases |-> <<>>, doc |-> None, serializer_class |-> None,
     get_serializer_class |-> None, permission_classes |-> <<>>, body |-> <<>>]

\* the guard of visit_ClassDef: some base is a Name of the table or has the
\* APIView marker
IsViewClass(node) ==
    \E i \in DOMAIN node.bases :
        /\ node.bases[i].kind = "Name"
        /\ \/ node.bases[i].id \in DOMAIN GENERIC_DEFAULTS
           \/ HasAPIViewMarker(node.bases[i].id)

\* ast.get_docstring(node) or "No description."
DocOf(node) == IF Falsy(node.doc) THEN "No description." ELSE node.doc

\* class_serializer of visit_ClassDef: the class attribute, else the name
\* get_serializer_class returns
ClassSerializerOf(node) ==
    IF ~Falsy(node.serializer_class) THEN node.serializer_class
    ELSE node.get_serializer_class

VerbMethodNames == {"get", "post", "put", "delete", "patch"}

\* item.name.upper()
Upper(name) ==
    CASE name = "get" -> "GET"
      [] name = "post" -> "POST"
      [] name = "put" -> "PUT"
      [] name = "delete" -> "DELETE"
      [] name = "patch" -> "PATCH"
      [] OTHER -> name

\* sorted(response_map.items()), for the status codes of the model
SortedStatusOrder == <<"200", "201", "204", "400">>

\* ", ".join(f"{c}: {m['serializer']}" for c, m in sorted(response_map.items()))
ResponseString(response_map) ==
    LET codes == SelectSeq(SortedStatusOrder, LAMBDA c : c \in DOMAIN response_map) IN
    JoinComma([i \in DOMAIN codes |-> codes[i] \o ": " \o response_map[codes[i]].serializer])

\* the request fallback without the test of the verb: the declared schema
\* for any verb
RequestFallbackAnyVerb(request, verb, cs) ==
    IF Falsy(request[1]) THEN
        IF ~Falsy(cs) THEN <<cs, "class_default">> ELSE <<"NoBody", "no_body">>
    ELSE request

\* the request fallback of an explicit method
RequestFallback(request, verb, cs) ==
    IF Falsy(request[1]) THEN
        IF verb \in {"POST", "PUT", "PATCH"} /\ ~Falsy(cs)
        THEN <<cs, "class_default">>
        ELSE <<"NoBody", "no_body">>
    ELSE request

\* the response fallback without the test of emptiness: the default entry is
\* added whenever its status has no entry yet
ResponseFallbackAlways(response_map, verb, cs) ==
    LET default_status == IF verb = "POST" THEN "201"
                          ELSE IF verb = "DELETE" THEN "204" ELSE "200" IN
    IF default_status \in DOMAIN response_map THEN response_map
    ELSE IF verb = "DELETE"
    THEN DictSet(response_map, "204", [serializer |-> "NoContent", source |-> "no_content"])
    ELSE IF ~Falsy(cs)
    THEN DictSet(response_map, default_status, [serializer |-> cs, source |-> "class_default"])
    ELSE DictSet(response_map, default_status, [serializer |-> "Unknown", source |-> "unknown"])

\* the response fallback of an explicit method
ResponseFallback(response_map, verb, cs) ==
    IF response_map = EmptyDict THEN
        LET default_status == IF verb = "POST" THEN "201"
                              ELSE IF verb = "DELETE" THEN "204" ELSE "200" IN
        IF verb = "DELETE"
        THEN ("204" :> [serializer |-> "NoContent", source |-> "no_content"])
        ELSE IF ~Falsy(cs)
        THEN (default_status :> [serializer |-> cs, source |-> "class_default"])
        ELSE (default_status :> [serializer |-> "Unknown", source |-> "unknown"])
    ELSE response_map

\* methods[verb] of an explicit verb method, from its analysis
ExplicitMethodSpec(a, verb, cs, permissions) ==
    LET req == RequestFallback(a.request, verb, cs)
        response_map == ResponseFallback(a.responses, verb, cs)
    IN  [request |-> req[1],
         response |-> ResponseString(response_map),
         response_details |-> response_map,
         req_source |-> req[2],
         res_source |-> "composite",
         permissions |-> permissions,
         query_params |-> a.query_params]

\* methods[method] of a backfilled verb
BackfillMethodSpecAll200(method, cs, permissions) ==
    LET default == IF Falsy(cs) THEN "Unknown" ELSE cs IN
    [request |-> IF method \in {"POST", "PUT", "PATCH"} THEN default ELSE "NoBody",
     response |-> "200: " \o default,
     req_source |-> "generic_default",
     res_source |-> "generic_default",
     permissions |-> permissions,
     query_params |-> <<>>]

BackfillMethodSpec(method, cs, permissions) ==
    LET default == IF Falsy(cs) THEN "Unknown" ELSE cs IN
    [request |-> IF method \in {"POST", "PUT", "PATCH"} THEN default ELSE "NoBody",
     response |-> IF method = "DELETE" THEN "204: NoContent"
                  ELSE IF method = "POST" THEN "201: " \o default
                  ELSE "200: " \o default,
     req_source |-> "generic_default",
     res_source |-> "generic_default",
     permissions |-> permissions,
     query_params |-> <<>>]

\* one item of the class body in the methods loop of visit_ClassDef
MethodItem(ms, item, cs, permissions, smap) ==
    IF item.kind = "FunctionDef" /\ item.name \in VerbMethodNames THEN
        LET a == analyze_method_logic(item.body, cs, item.name, smap) IN
        IF a.raised THEN [raised |-> TRUE, methods |-> ms]
        ELSE [raised |-> FALSE,
              methods |-> DictSet(ms, Upper(item.name),
                                  ExplicitMethodSpec(a, Upper(item.name), cs, permissions))]
    ELSE [raised |-> FALSE, methods |-> ms]

\* "if method not in methods": whether backfill may write the verb
BackfillAlwaysWrites(ms, method) == TRUE

BackfillMayWrite(ms, method) == method \notin DOMAIN ms

RECURSIVE BackfillVerbs(_, _, _, _)
\* the inner loop of the backfill: the verbs of one base, in table order
BackfillVerbs(ms, verbs, cs, permissions) ==
    IF verbs = <<>> THEN ms
    ELSE BackfillVerbs(
             IF BackfillMayWrite(ms, Head(verbs))
             THEN DictSet(ms, Head(verbs), BackfillMethodSpec(Head(verbs), cs, permissions))
             ELSE ms,
             Tail(verbs), cs, permissions)

\* one base of the backfill loop: bases that are no Name were filtered out
BackfillBase(ms, base, cs, permissions) ==
    IF base.kind = "Name" /\ base.id \in DOMAIN GENERIC_DEFAULTS
    THEN BackfillVerbs(ms, GENERIC_DEFAULTS[base.id].methods, cs, permissions)
    ELSE ms

RECURSIVE MethodItemsFrom(_, _, _, _, _, _)
MethodItemsFrom(r, body, i, cs, permissions, smap) ==
    IF i > Len(body) \/ r.raised THEN r
    ELSE MethodItemsFrom(MethodItem(r.methods, body[i], cs, permissions, smap),
                         body, i + 1, cs, permissions, smap)

RECURSIVE BackfillFrom(_, _, _, _, _)
BackfillFrom(ms, bases, i, cs, permissions) ==
    IF i > Len(bases) THEN ms
    ELSE BackfillFrom(BackfillBase(ms, bases[i], cs, permissions),
                      bases, i + 1, cs, permissions)

\* self.views[node.name] = {"doc": doc, "methods": methods}
ViewEntry(node, ms) == [doc |-> DocOf(node), methods |-> ms]

\* ViewVisitor.visit_ClassDef on a whole class: the views dict after it, or
\* raised when the analysis of a method raises
visit_ClassDef(vs, node, smap) ==
    IF ~IsViewClass(node) THEN [raised |-> FALSE, views |-> vs]
    ELSE LET cs == ClassSerializerOf(node)
             r == MethodItemsFrom([raised |-> FALSE, methods |-> EmptyDict],
                                  node.body, 1, cs, node.permission_classes, smap)
         IN  IF r.raised THEN [raised |-> TRUE, views |-> vs]
             ELSE [raised |-> FALSE,
                   views |-> DictSet(vs, node.name,
                                ViewEntry(node, BackfillFrom(r.methods, node.bases, 1, cs,
                                                             node.permission_classes)))]


(***************************************************************************)
(* SpecView: ViewVisitor.visit_ClassDef on one class definition, one loop  *)
(* iteration per step.  view_pc is "start" before the guard, "visiting"    *)
(* inside the method and backfill loops, and "skipped", "raised" or        *)
(* "registered" at the end.                                                *)
(***************************************************************************)
MaxClassSize == 3

ViewBaseNodes ==
    {NameBase("APIView"), NameBase("ModelViewSet"), NameBase("ListCreateAPIView"),
     NameBase("RetrieveDestroyAPIView"), NameBase("ViewSet"), NameBase("Mixin"),
     AttributeBase("ModelViewSet")}

\* def m(self, request): pass
BodyPass == <<>>

\* s = UserSerializer(data=request.data); return Response(s.data, status=status.HTTP_201_CREATED)
BodySerializer ==
    <<Assign("s", SerCall("UserSerializer", "kw_data")),
      Return(ResponseCall("NameData", "s", <<>>, "symbolic", "201"))>>

\* q = request.query_params.get("q"); page = request.GET["page"]
BodyQuery ==
    <<Assign("q", AttrMethodCall("request", "query_params", "get", "q")),
      Assign("page", AttrSubscript("request", "GET", "page"))>>

\* return Response({name: 1})
BodyRaises ==
    <<Return(ResponseCall("Dict", None, <<NameKey("name")>>, "none", None))>>

ViewItems ==
    {FunctionDef(n, b) : n \in {"get", "post", "delete", "list"},
                         b \in {BodyPass, BodySerializer}}
    \cup {FunctionDef("get", BodyQuery), FunctionDef("put", BodyRaises)}

\* class UserView(*bs): serializer_class = sc; the methods of items
ViewClass(bs, items, sc) ==
    [NoClass EXCEPT !.name = "UserView", !.bases = bs, !.body = items,
                    !.serializer_class = sc]

InitView ==
    /\ \E n \in 1..MaxClassSize : \E m \in 0..(MaxClassSize - n) :
       \E bs \in [1..n -> ViewBaseNodes] : \E items \in [1..m -> ViewItems] :
       \E sc \in {None, "ProfileSerializer"} :
           class_node = ViewClass(bs, items, sc)
    /\ view_pc = "start"
    /\ item_pos = 1
    /\ base_pos = 1
    /\ methods = EmptyDict
    /\ views = EmptyDict
    /\ class_serializer = None
    /\ hash_order \in HashOrders
    /\ service_map = WalkServiceMap
    /\ IdleWalk
    /\ IdleWrap
    /\ IdleSer
    /\ IdleTrav
    /\ IdleScan

\* the class is no handler: nothing is registered
ViewSkip ==
    /\ view_pc = "start"
    /\ ~IsViewClass(class_node)
    /\ view_pc' = "skipped"
    /\ UNCHANGED <<class_node, item_pos, base_pos, methods, views, class_serializer,
                   service_map, hash_order>>
    /\ UNCHANGED outsideView

\* the class is a handler: doc, class_serializer and permissions are read
ViewEnter ==
    /\ view_pc = "start"
    /\ IsViewClass(class_node)
    /\ class_serializer' = ClassSerializerOf(class_node)
    /\ view_pc' = "visiting"
    /\ UNCHANGED <<class_node, item_pos, base_pos, methods, views, service_map, hash_order>>
    /\ UNCHANGED outsideView

\* one item of the methods loop
ViewMethodItem ==
    /\ view_pc = "visiting"
    /\ item_pos <= Len(class_node.body)
    /\ LET r == MethodItem(methods, class_node.body[item_pos], class_serializer,
                           class_node.permission_classes, service_map)
       IN  /\ methods' = r.methods
           /\ view_pc' = IF r.raised THEN "raised" ELSE "visiting"
    /\ item_pos' = item_pos + 1
    /\ UNCHANGED <<class_node, base_pos, views, class_serializer, service_map, hash_order>>
    /\ UNCHANGED outsideView

\* one base of the backfill loop
ViewBackfill ==
    /\ view_pc = "visiting"
    /\ item_pos > Len(class_node.body)
    /\ base_pos <= Len(class_node.bases)
    /\ methods' = BackfillBase(methods, class_node.bases[base_pos], class_serializer,
                               class_node.permission_classes)
    /\ base_pos' = base_pos + 1
    /\ UNCHANGED <<class_node, view_pc, item_pos, views, class_serializer, service_map,
                   hash_order>>
    /\ UNCHANGED outsideView

\* self.views[node.name] = {"doc": doc, "methods": methods}
ViewRegister ==
    /\ view_pc = "visiting"
    /\ item_pos > Len(class_node.body)
    /\ base_pos > Len(class_node.bases)
    /\ views' = DictSet(views, class_node.name, ViewEntry(class_node, methods))
    /\ view_pc' = "registered"
    /\ UNCHANGED <<class_node, item_pos, base_pos, methods, class_serializer, service_map,
                   hash_order>>
    /\ UNCHANGED outsideView

NextView == ViewSkip \/ ViewEnter \/ ViewMethodItem \/ ViewBackfill \/ ViewRegister

SpecView == InitView /\ [][NextView]_vars



(***************************************************************************)
(* Properties of the handler extractor, under SpecView.                    *)
(***************************************************************************)
Registered == view_pc = "registered"

\* the verbs the class defines as methods
ExplicitVerbs(node) ==
    {Upper(node.body[i].name) : i \in {j \in DOMAIN node.body :
                                          /\ node.body[j].kind = "FunctionDef"
                                          /\ node.body[j].name \in VerbMethodNames}}

\* the verbs the table gives to the bases the class names
ImpliedVerbs(node) ==
    UNION {Range(GENERIC_DEFAULTS[node.bases[i].id].methods) :
              i \in {j \in DOMAIN node.bases :
                        /\ node.bases[j].kind = "Name"
                        /\ node.bases[j].id \in DOMAIN GENERIC_DEFAULTS}}

\* the definition of a method name that is in effect: the last one
LastDefinition(node, i) ==
    \A j \in DOMAIN node.body : j > i => node.body[j].name # node.body[i].name

InheritsModelViewSet(node) ==
    \E i \in DOMAIN node.bases : node.bases[i] = NameBase("ModelViewSet")

DefaultSchemaName(node) ==
    IF Falsy(ClassSerializerOf(node)) THEN "Unknown" ELSE ClassSerializerOf(node)

\* C4: a registered handler class with no explicit verb method that names
\* ModelViewSet as a base has exactly the verbs GET, POST, PUT, PATCH and
\* DELETE, with the default statuses 200 for GET, PUT and PATCH, 201 for POST
\* and 204 for DELETE.
C4_ModelViewSetBackfill ==
    (Registered /\ InheritsModelViewSet(class_node) /\ ExplicitVerbs(class_node) = {})
    => LET ms == views[class_node.name].methods
           d == DefaultSchemaName(class_node)
       IN  /\ DOMAIN ms = {"GET", "POST", "PUT", "PATCH", "DELETE"}
           /\ ms["GET"].response = "200: " \o d
           /\ ms["PUT"].response = "200: " \o d
           /\ ms["PATCH"].response = "200: " \o d
           /\ ms["POST"].response = "201: " \o d
           /\ ms["DELETE"].response = "204: NoContent"

C4_Witness ==
    /\ Registered
    /\ InheritsModelViewSet(class_node)
    /\ ExplicitVerbs(class_node) = {}
    /\ Len(class_node.body) > 0
    /\ Cardinality(DOMAIN views[class_node.name].methods) = 5
    /\ views[class_node.name].methods["POST"].response = "201: ProfileSerializer"

\* C5: after extraction the specification of every verb the class defines is
\* the one derived from analysing that method, and the verbs of the class are
\* the explicit verbs united with the verbs its bases imply.
C5_BackfillKeepsExplicit ==
    Registered
    => LET ms == views[class_node.name].methods
           cs == ClassSerializerOf(class_node)
       IN  /\ DOMAIN ms = ExplicitVerbs(class_node) \cup ImpliedVerbs(class_node)
           /\ \A i \in DOMAIN class_node.body :
                  (class_node.body[i].name \in VerbMethodNames /\ LastDefinition(class_node, i))
                  => ms[Upper(class_node.body[i].name)] =
                         ExplicitMethodSpec(
                             analyze_method_logic(class_node.body[i].body, cs,
                                                  class_node.body[i].name, service_map),
                             Upper(class_node.body[i].name), cs,
                             class_node.permission_classes)

\* an explicit GET with an analysed response of its own, under a base that
\* implies GET and POST
C5_Witness ==
    /\ Registered
    /\ "GET" \in ExplicitVerbs(class_node) \cap ImpliedVerbs(class_node)
    /\ "POST" \in ImpliedVerbs(class_node) \ ExplicitVerbs(class_node)
    /\ views[class_node.name].methods["GET"].res_source = "composite"
    /\ views[class_node.name].methods["GET"].response = "201: UserSerializer"
    /\ views[class_node.name].methods["POST"].res_source = "generic_default"


(***************************************************************************)
(* ModelScanner and SerializerScanner.                                     *)
(*                                                                         *)
(* A field assignment of a class body is [kind |-> "Assign", target, call  *)
(* (whether the value is a call), func (the called name, or the attribute  *)
(* of a dotted callee), kws (the keywords, each [arg, value] with value    *)
(* "True", "False", the callee of child=X(...), or "other")].  A Meta      *)
(* class is [kind |-> "Meta", model_kind ("Name", "Attribute", "Other" or  *)
(* "absent"), model, fields_kind ("all", "List", "Tuple" or "absent"),     *)
(* fields (the string constants of the list)].                             *)
(***************************************************************************)
Kw(arg, value) == [arg |-> arg, value |-> value]

FieldAssign(target, func, kws) ==
    [kind |-> "Assign", target |-> target, call |-> TRUE, func |-> func, kws |-> kws]

\* target = value, where value is no call
PlainAssign(target) ==
    [kind |-> "Assign", target |-> target, call |-> FALSE, func |-> "", kws |-> <<>>]

MetaClass(model_kind, model, fields_kind, fields) ==
    [kind |-> "Meta", model_kind |-> model_kind, model |-> model,
     fields_kind |-> fields_kind, fields |-> fields]

\* "Field" in name, for the names of the model
HasFieldMarker(name) ==
    name \in {"CharField", "EmailField", "IntegerField", "ListField",
              "SerializerMethodField"}

\* "Serializer" in name: a schema class or a schema-typed field
HasSchemaMarker(name) == HasSerializerMarker(name) \/ name = "SerializerMethodField"

\* "Model" in b.id / b.attr, for the base names of the model
HasModelMarker(id) == id \in {"Model", "ModelSerializer", "ModelViewSet", "BaseModel"}

FieldDescriptor(type, props) == [type |-> type, props |-> props]

\* a model field's props never carry Nullable
ModelPropsWithoutNull(props, kws) == props

RECURSIVE ModelProps(_, _)
\* the props of ModelScanner.visit_Assign, keyword by keyword
ModelProps(props, kws) ==
    IF kws = <<>> THEN props
    ELSE ModelProps(
             IF /\ Head(kws).arg \in {"null", "blank"}
                /\ Head(kws).value = "True"
                /\ "Nullable" \notin Range(props)
             THEN Append(props, "Nullable") ELSE props,
             Tail(kws))

\* ModelScanner.visit_Assign inside a model class: the fields after it
ModelVisitAssign(fields, item) ==
    IF item.call /\ HasFieldMarker(item.func) /\ item.target # ""
    THEN DictSet(fields, item.target,
                 FieldDescriptor(TypeName(item.func), ModelProps(<<>>, item.kws)))
    ELSE fields

RECURSIVE ModelFieldsFrom(_, _, _)
ModelFieldsFrom(fields, body, i) ==
    IF i > Len(body) THEN fields
    ELSE ModelFieldsFrom(
             IF body[i].kind = "Assign" THEN ModelVisitAssign(fields, body[i]) ELSE fields,
             body, i + 1)

\* is_model of ModelScanner.visit_ClassDef
IsModelClass(node) ==
    \E i \in DOMAIN node.bases : HasModelMarker(node.bases[i].id)

\* ModelScanner.visit_ClassDef: the models dict after the class
ModelVisitClassDef(models, node) ==
    IF IsModelClass(node)
    THEN DictSet(models, node.name, ModelFieldsFrom(EmptyDict, node.body, 1))
    ELSE models

\* one keyword of SerializerScanner.visit_Assign on [type, props]
SerializerKeyword(d, kw) ==
    LET d1 == IF kw.arg = "required" /\ kw.value = "False"
              THEN [d EXCEPT !.props = Append(@, "Optional")] ELSE d
        d2 == IF kw.arg = "read_only" /\ kw.value = "True"
              THEN [d1 EXCEPT !.props = Append(@, "ReadOnly")] ELSE d1
        d3 == IF kw.arg = "write_only" /\ kw.value = "True"
              THEN [d2 EXCEPT !.props = Append(@, "WriteOnly")] ELSE d2
        d4 == IF kw.arg = "many" /\ kw.value = "True"
              THEN [d3 EXCEPT !.type = ListOf(@)] ELSE d3
        d5 == IF kw.arg = "allow_null" /\ kw.value = "True"
              THEN [d4 EXCEPT !.props = Append(@, "Nullable")] ELSE d4
    IN  IF kw.arg = "child" /\ kw.value \notin {"True", "False", "other"}
        THEN [d5 EXCEPT !.type = ListOf(TypeName(kw.value))] ELSE d5

RECURSIVE SerializerKeywords(_, _)
SerializerKeywords(d, kws) ==
    IF kws = <<>> THEN d
    ELSE SerializerKeywords(SerializerKeyword(d, Head(kws)), Tail(kws))

\* SerializerScanner.__init__
NewSerializerScanner ==
    [serializers |-> EmptyDict, current_class |-> None, meta_model |-> None,
     meta_fields |-> [kind |-> "none", names |-> <<>>]]

\* self.serializers[self.current_class]["fields"][name] = descriptor
SetField(sc, name, descriptor) ==
    [sc EXCEPT !.serializers[sc.current_class].fields = DictSet(@, name, descriptor)]

\* SerializerScanner.visit_Assign
SerializerVisitAssign(sc, item) ==
    IF /\ ~Falsy(sc.current_class)
       /\ sc.current_class # "Meta"
       /\ item.call
       /\ HasFieldMarker(item.func) \/ HasSchemaMarker(item.func)
       /\ item.target # ""
    THEN SetField(sc, item.target,
                  SerializerKeywords(FieldDescriptor(TypeName(item.func), <<>>), item.kws))
    ELSE sc

\* the Meta branch of SerializerScanner.visit_ClassDef
SerializerVisitMeta(sc, item) ==
    LET sc1 == IF item.model_kind \in {"Name", "Attribute"}
               THEN [sc EXCEPT !.meta_model = item.model] ELSE sc
    IN  IF item.fields_kind = "all"
        THEN [sc1 EXCEPT !.meta_fields = [kind |-> "all", names |-> <<>>]]
        ELSE IF item.fields_kind = "List"
        THEN [sc1 EXCEPT !.meta_fields = [kind |-> "list", names |-> item.fields]]
        ELSE sc1

\* an assignment in a method of the class body, reached by generic_visit
SerializerVisitStmt(sc, stmt) ==
    IF /\ stmt.stmt = "Assign"
       /\ stmt.value.node = "Call"
       /\ ~Falsy(sc.current_class)
       /\ stmt.target # ""
    THEN LET callee == IF stmt.value.func = "Name" THEN stmt.value.id ELSE stmt.value.attr IN
         IF HasFieldMarker(callee) \/ HasSchemaMarker(callee)
         THEN SetField(sc, stmt.target, FieldDescriptor(TypeName(callee), <<>>))
         ELSE sc
    ELSE sc

RECURSIVE SerializerVisitStmts(_, _, _)
SerializerVisitStmts(sc, body, i) ==
    IF i > Len(body) THEN sc
    ELSE SerializerVisitStmts(SerializerVisitStmt(sc, body[i]), body, i + 1)

\* generic_visit on one item of a schema class body
SerializerItem(sc, item) ==
    IF item.kind = "Assign" THEN SerializerVisitAssign(sc, item)
    ELSE IF item.kind = "Meta" THEN
        IF ~Falsy(sc.current_class) THEN SerializerVisitMeta(sc, item) ELSE sc
    ELSE SerializerVisitStmts(sc, item.body, 1)

\* "if fname not in current_fields": whether the merge may write the name
MergeAlwaysWrites(current_fields, fname) == TRUE

MergeMayWrite(current_fields, fname) == fname \notin DOMAIN current_fields

\* the names the merge considers: every model field, or the listed names
\* that are model fields
MergeCandidates(meta_fields, model_fields) ==
    IF meta_fields.kind = "all" THEN DOMAIN model_fields
    ELSE IF meta_fields.kind = "list" THEN Range(meta_fields.names) \cap DOMAIN model_fields
    ELSE {}

\* the model-field merge at the end of a schema class
MergeModelFields(current_fields, meta_fields, model_fields) ==
    LET added == {f \in MergeCandidates(meta_fields, model_fields) :
                     MergeMayWrite(current_fields, f)}
    IN  [f \in DOMAIN current_fields \cup added |->
            IF f \in added THEN model_fields[f] ELSE current_fields[f]]

\* the entry of a schema class: the head of SerializerScanner.visit_ClassDef
SerializerEnter(sc, node) ==
    [sc EXCEPT !.current_class = node.name,
               !.serializers = DictSet(@, node.name, [fields |-> EmptyDict]),
               !.meta_model = None,
               !.meta_fields = [kind |-> "none", names |-> <<>>]]

\* the end of a schema class: the merge, then current_class = None
SerializerLeave(sc, mmap) ==
    LET merged ==
            IF ~Falsy(sc.meta_model) /\ sc.meta_model \in DOMAIN mmap
            THEN [sc EXCEPT !.serializers[sc.current_class].fields =
                     MergeModelFields(@, sc.meta_fields, mmap[sc.meta_model])]
            ELSE sc
    IN  [merged EXCEPT !.current_class = None]

RECURSIVE SerializerItemsFrom(_, _, _)
SerializerItemsFrom(sc, body, i) ==
    IF i > Len(body) THEN sc
    ELSE SerializerItemsFrom(SerializerItem(sc, body[i]), body, i + 1)

\* SerializerScanner.visit_ClassDef on a top-level class
SerializerVisitClassDef(sc, node, mmap) ==
    IF HasSchemaMarker(node.name)
    THEN SerializerLeave(SerializerItemsFrom(SerializerEnter(sc, node), node.body, 1),
                         mmap)
    ELSE sc


(***************************************************************************)
(* SpecSer: SerializerScanner.visit_ClassDef on one class, one body item   *)
(* per step, against a models map ModelScanner produced.                   *)
(***************************************************************************)
MaxSerBody == 3

\* class User(models.Model): name = models.CharField(); email = models.EmailField(null=True)
UserModelClass ==
    [NoClass EXCEPT !.name = "User", !.bases = <<AttributeBase("Model")>>,
                    !.body = <<FieldAssign("name", "CharField", <<>>),
                               FieldAssign("email", "EmailField", <<Kw("null", "True")>>)>>]

UserModels == ModelVisitClassDef(EmptyDict, UserModelClass)

SerItems ==
    {FieldAssign("name", "CharField", <<Kw("required", "False")>>),
     FieldAssign("name", "IntegerField", <<>>),
     FieldAssign("email", "ProfileSerializer", <<Kw("many", "True")>>),
     PlainAssign("email"),
     MetaClass("Name", "User", "all", <<>>),
     MetaClass("Attribute", "User", "List", <<"name", "email", "ghost">>),
     MetaClass("Name", "User", "List", <<"email">>),
     MetaClass("Name", "User", "Tuple", <<>>),
     MetaClass("Name", "Ghost", "all", <<>>),
     MetaClass("absent", "", "all", <<>>)}

InitSer ==
    /\ \E name \in {"UserSerializer", "Helper"} :
       \E n \in 0..MaxSerBody : \E items \in [1..n -> SerItems] :
           ser_node = [NoClass EXCEPT !.name = name, !.body = items]
    /\ models_map \in {EmptyDict, UserModels}
    /\ scanner = NewSerializerScanner
    /\ ser_pc = "start"
    /\ ser_pos = 1
    /\ class_serializer = None
    /\ hash_order = <<"page", "q">>
    /\ service_map = EmptyDict
    /\ IdleWalk
    /\ IdleWrap
    /\ IdleView
    /\ IdleTrav
    /\ IdleScan

\* the class is no schema class
SerSkip ==
    /\ ser_pc = "start"
    /\ ~HasSchemaMarker(ser_node.name)
    /\ ser_pc' = "skipped"
    /\ UNCHANGED <<scanner, ser_node, ser_pos, models_map>>
    /\ UNCHANGED outsideSer

SerEnter ==
    /\ ser_pc = "start"
    /\ HasSchemaMarker(ser_node.name)
    /\ scanner' = SerializerEnter(scanner, ser_node)
    /\ ser_pc' = "scanning"
    /\ UNCHANGED <<ser_node, ser_pos, models_map>>
    /\ UNCHANGED outsideSer

\* generic_visit: one item of the class body
SerBodyItem ==
    /\ ser_pc = "scanning"
    /\ ser_pos <= Len(ser_node.body)
    /\ scanner' = SerializerItem(scanner, ser_node.body[ser_pos])
    /\ ser_pos' = ser_pos + 1
    /\ UNCHANGED <<ser_node, ser_pc, models_map>>
    /\ UNCHANGED outsideSer

\* the model-field merge, and the end of the class
SerMerge ==
    /\ ser_pc = "scanning"
    /\ ser_pos > Len(ser_node.body)
    /\ scanner' = SerializerLeave(scanner, models_map)
    /\ ser_pc' = "done"
    /\ UNCHANGED <<ser_node, ser_pos, models_map>>
    /\ UNCHANGED outsideSer

NextSer == SerSkip \/ SerEnter \/ SerBodyItem \/ SerMerge

SpecSer == InitSer /\ [][NextSer]_vars

\* the items of the schema classes of the selection modes: an explicit
\* field, and a Meta block for each way of naming a model and fields:
\*   fields = "__all__"; fields = ["name", "ghost"]; fields = ("name", "email");
\*   no fields; model = Ghost; no model
SelectItems ==
    {FieldAssign("age", "IntegerField", <<>>),
     FieldAssign("name", "CharField", <<Kw("required", "False")>>),
     MetaClass("Name", "User", "all", <<>>),
     MetaClass("Attribute", "User", "List", <<"name", "ghost">>),
     MetaClass("Name", "User", "Tuple", <<"name", "email">>),
     MetaClass("Name", "User", "absent", <<>>),
     MetaClass("Name", "Ghost", "all", <<>>),
     MetaClass("absent", "", "all", <<>>)}

InitSelect ==
    /\ \E name \in {"UserSerializer", "Helper"} :
       \E n \in 0..MaxSerBody : \E items \in [1..n -> SelectItems] :
           ser_node = [NoClass EXCEPT !.name = name, !.body = items]
    /\ models_map \in {EmptyDict, UserModels}
    /\ scanner = NewSerializerScanner
    /\ ser_pc = "start"
    /\ ser_pos = 1
    /\ class_serializer = None
    /\ hash_order = <<"page", "q">>
    /\ service_map = EmptyDict
    /\ IdleWalk
    /\ IdleWrap
    /\ IdleView
    /\ IdleTrav
    /\ IdleScan

SpecSelect == InitSelect /\ [][NextSer]_vars

(***************************************************************************)
(* Properties of the schema extractor, under SpecSer.                      *)
(***************************************************************************)
FieldsOf(sc, name) == sc.serializers[name].fields

\* C6: the model-field merge leaves every field the schema class declares
\* with the descriptor the declaration gave it, whichever the selection mode.
C6_MergeKeepsExplicit ==
    [][(ser_pc = "scanning" /\ ser_pc' = "done")
       => \A f \in DOMAIN FieldsOf(scanner, ser_node.name) :
              /\ f \in DOMAIN FieldsOf(scanner', ser_node.name)
              /\ FieldsOf(scanner', ser_node.name)[f] = FieldsOf(scanner, ser_node.name)[f]]_vars

\* a schema class that declares email itself and takes name from the model
C6_Witness ==
    /\ ser_pc = "done"
    /\ scanner.meta_model = "User"
    /\ models_map = UserModels
    /\ scanner.meta_fields.kind = "list"
    /\ DOMAIN FieldsOf(scanner, ser_node.name) = {"name", "email"}
    /\ FieldsOf(scanner, ser_node.name)["email"] = FieldDescriptor(ListOf(TypeName("ProfileSerializer")), <<>>)
    /\ FieldsOf(scanner, ser_node.name)["name"] = UserModels["User"]["name"]


(***************************************************************************)
(* The traversals of the schema map: generate_json_example and             *)
(* render_nested_schema.  The map gives, for each schema name, the types   *)
(* of its fields in the order fields.items() yields them.  A frame of the  *)
(* call stack is one active call: its serializer_name argument, its        *)
(* visited argument, whether it has passed its guards ("entry" before,     *)
(* "loop" after), the field its loop is at, and its new_visited.           *)
(***************************************************************************)
MaxTravFields == 3      \* fields in the whole schema map

SchemaNames == {"A", "B", "C"}

\* the key sets of the schema maps
SchemaKeySets == {{"A"}, {"A", "B"}, {"A", "B", "C"}}

TravTypes ==
    {TypeName(n) : n \in SchemaNames} \cup {ListOf(TypeName("A")), TypeName("CharField")}

\* base_name in serializers_map
InMap(base, m) == Len(base) = 1 /\ base[1] \in DOMAIN m

Frame(name, visited) ==
    [name |-> name, visited |-> visited, pc |-> "entry", idx |-> 1, new_visited |-> {}]

Top == trav_stack[Len(trav_stack)]

BaseOf(frame) == get_base_type(frame.name)

\* "if base_name in visited": the call is a revisit
RevisitsNever(frame) == FALSE

Revisits(frame) == BaseOf(frame) \in frame.visited

\* the sentinel a revisit returns
Sentinel(fn, frame) ==
    IF fn = "json"
    THEN IF StartsWithList(frame.name) THEN "[{...recursive...}]" ELSE "{...recursive...: True}"
    ELSE "(Recursive)"

\* what a call returns for a name that is no schema, or a schema without fields
LeafValue(fn, frame, m) ==
    IF fn = "json"
    THEN IF ~InMap(BaseOf(frame), m)
         THEN IF StartsWithList(frame.name) THEN "[mock]" ELSE "mock"
         ELSE IF StartsWithList(frame.name) THEN "[{}]" ELSE "{}"
    ELSE ""

\* what a call returns after its loop
ObjectValue(fn, frame) ==
    IF fn = "json"
    THEN IF StartsWithList(frame.name) THEN "[example_obj]" ELSE "example_obj"
    ELSE "<ul>"

FieldsOfSchema(m, frame) == m[BaseOf(frame)[1]]

\* "if base_name not in serializers_map" and "if not fields"
IsLeaf(frame, m) ==
    IF InMap(BaseOf(frame), m) THEN FieldsOfSchema(m, frame) = <<>> ELSE TRUE

\* the stack after the top call returns: its caller moves to the next field
PopFrame(stack) ==
    LET rest == SubSeq(stack, 1, Len(stack) - 1) IN
    IF rest = <<>> THEN rest
    ELSE [rest EXCEPT ![Len(rest)].idx = @ + 1]

\* the serializer_name argument of the recursive call: the field's type in
\* generate_json_example, its base in render_nested_schema
ChildArgument(fn, ftype) == IF fn = "json" THEN ftype ELSE get_base_type(ftype)

InitTrav ==
    /\ trav_fn \in {"json", "html"}
    /\ \E keys \in SchemaKeySets :
       \E na \in 0..MaxTravFields :
       \E nb \in IF "B" \in keys THEN 0..(MaxTravFields - na) ELSE {0} :
       \E nc \in IF "C" \in keys THEN 0..(MaxTravFields - na - nb) ELSE {0} :
       \E fa \in [1..na -> TravTypes] : \E fb \in [1..nb -> TravTypes] :
       \E fc \in [1..nc -> TravTypes] :
           trav_map = [n \in keys |->
                          IF n = "A" THEN fa ELSE IF n = "B" THEN fb ELSE fc]
    /\ \E name \in {TypeName("A"), ListOf(TypeName("A")), TypeName("CharField")} :
       \E visited \in {{}, {TypeName("B")}} :
           /\ trav_fn = "json" => visited = {}
           /\ trav_stack = <<Frame(name, visited)>>
    /\ trav_ret = None
    /\ class_serializer = None
    /\ hash_order = <<"page", "q">>
    /\ service_map = EmptyDict
    /\ IdleWalk
    /\ IdleWrap
    /\ IdleView
    /\ IdleSer
    /\ IdleScan

AtEntry == trav_stack # <<>> /\ Top.pc = "entry"

InLoop == trav_stack # <<>> /\ Top.pc = "loop"

\* the name is on the current path: the sentinel is returned
TravRevisit ==
    /\ AtEntry
    /\ Revisits(Top)
    /\ trav_ret' = Sentinel(trav_fn, Top)
    /\ trav_stack' = PopFrame(trav_stack)
    /\ UNCHANGED <<trav_fn, trav_map>>
    /\ UNCHANGED outsideTrav

\* the name is no schema of the map, or the schema has no fields
TravLeaf ==
    /\ AtEntry
    /\ ~Revisits(Top)
    /\ IsLeaf(Top, trav_map)
    /\ trav_ret' = LeafValue(trav_fn, Top, trav_map)
    /\ trav_stack' = PopFrame(trav_stack)
    /\ UNCHANGED <<trav_fn, trav_map>>
    /\ UNCHANGED outsideTrav

\* new_visited = visited.copy(); new_visited.add(base_name); the loop starts
TravDescend ==
    /\ AtEntry
    /\ ~Revisits(Top)
    /\ ~IsLeaf(Top, trav_map)
    /\ trav_stack' = [trav_stack EXCEPT ![Len(trav_stack)] =
                         [@ EXCEPT !.pc = "loop",
                                   !.new_visited = Top.visited \cup {BaseOf(Top)}]]
    /\ UNCHANGED <<trav_fn, trav_map, trav_ret>>
    /\ UNCHANGED outsideTrav

\* a field whose base is a schema of the map: the recursive call
TravCall ==
    /\ InLoop
    /\ Top.idx <= Len(FieldsOfSchema(trav_map, Top))
    /\ LET ftype == FieldsOfSchema(trav_map, Top)[Top.idx] IN
       /\ InMap(get_base_type(ftype), trav_map)
       /\ trav_stack' = Append(trav_stack,
                               Frame(ChildArgument(trav_fn, ftype), Top.new_visited))
    /\ UNCHANGED <<trav_fn, trav_map, trav_ret>>
    /\ UNCHANGED outsideTrav

\* a field of any other type: no call
TravPlainField ==
    /\ InLoop
    /\ Top.idx <= Len(FieldsOfSchema(trav_map, Top))
    /\ ~InMap(get_base_type(FieldsOfSchema(trav_map, Top)[Top.idx]), trav_map)
    /\ trav_stack' = [trav_stack EXCEPT ![Len(trav_stack)].idx = @ + 1]
    /\ UNCHANGED <<trav_fn, trav_map, trav_ret>>
    /\ UNCHANGED outsideTrav

\* the loop is over: the call returns what it built
TravReturn ==
    /\ InLoop
    /\ Top.idx > Len(FieldsOfSchema(trav_map, Top))
    /\ trav_ret' = ObjectValue(trav_fn, Top)
    /\ trav_stack' = PopFrame(trav_stack)
    /\ UNCHANGED <<trav_fn, trav_map>>
    /\ UNCHANGED outsideTrav

NextTrav ==
    TravRevisit \/ TravLeaf \/ TravDescend \/ TravCall \/ TravPlainField \/ TravReturn

SpecTrav == InitTrav /\ [][NextTrav]_vars

\* the interpreter runs a call to its end: a step that can be taken is taken
SpecTravFair == SpecTrav /\ WF_vars(NextTrav)


(***************************************************************************)
(* Properties of the traversals, under SpecTravFair.                       *)
(***************************************************************************)
TravDone == trav_stack = <<>>

\* the recursive calls that are active: the frames above the first call
RecursionDepth == IF trav_stack = <<>> THEN 0 ELSE Len(trav_stack) - 1

\* the schemas the active calls have descended into
PathFrames == {i \in DOMAIN trav_stack : trav_stack[i].pc = "loop"}

Sentinels == {"[{...recursive...}]", "{...recursive...: True}", "(Recursive)"}

\* C7: on any schema map, cyclic or not, a traversal ends; a call for a
\* schema that is on the current path returns the recursion sentinel without
\* descending; no schema is descended into twice on one path, and the depth
\* of the recursion never exceeds the number of schemas of the map.
C7_CycleSafe ==
    /\ [](/\ RecursionDepth <= Cardinality(DOMAIN trav_map)
          /\ \A i, j \in PathFrames :
                 get_base_type(trav_stack[i].name) = get_base_type(trav_stack[j].name)
                 => i = j)
    /\ [][(/\ trav_stack # <<>>
           /\ Top.pc = "entry"
           /\ get_base_type(Top.name) \in Top.visited)
          => /\ Len(trav_stack') = Len(trav_stack) - 1
             /\ trav_ret' \in Sentinels]_vars
    /\ <>TravDone

\* a cycle through every schema of a three-schema map: the call that closed
\* it has returned the sentinel to the third nested call
C7_Witness ==
    /\ trav_fn = "json"
    /\ Cardinality(DOMAIN trav_map) = 3
    /\ Len(trav_stack) = 3
    /\ PathFrames = {1, 2, 3}
    /\ trav_ret = "{...recursive...: True}"


(***************************************************************************)
(* ServiceScanner.                                                         *)
(***************************************************************************)
\* any(x in node.name for x in ["Service", "Manager", "Handler"]), for the
\* class names of the model
HasServiceMarker(name) == name \in {"UserService", "OrderManager", "EventHandler"}

\* the names a service method binds to request.query_params / request.GET:
\* ast.walk reaches every statement before any expression inside one
ServiceAliases(fn) ==
    {fn.body[i].target : i \in {j \in DOMAIN fn.body :
        /\ fn.body[j].stmt = "Assign"
        /\ fn.body[j].target # ""
        /\ fn.body[j].value.node = "Attribute"
        /\ fn.body[j].value.base = "Name"
        /\ fn.body[j].value.id \in Range(fn.args)
        /\ fn.body[j].value.attr \in QueryParamAttrs}}

\* the key a subscript or a .get() call of a service method detects, or ""
ServiceQueryKey(fn, e) ==
    IF \/ e.node = "Subscript"
       \/ e.node = "Call" /\ e.func = "Attribute" /\ e.attr = "get"
    THEN IF e.base = "Attribute" /\ e.battr \in QueryParamAttrs
         THEN IF e.id \in Range(fn.args) THEN e.key ELSE ""
         ELSE IF e.base = "Name" /\ e.id \in ServiceAliases(fn) THEN e.key
         ELSE ""
    ELSE ""

ServiceQueryParams(fn) ==
    {ServiceQueryKey(fn, fn.body[i].value) : i \in DOMAIN fn.body} \ {""}

\* the schema constructions ast.walk meets, in its order: the calls that are
\* the value of a statement, then the calls inside a Response payload; each
\* is <<class, whether it has a data or partial keyword>>
ServiceSerializerCalls(fn) ==
    LET direct == SelectSeq(fn.body, LAMBDA st :
                      /\ st.value.node = "Call" /\ st.value.func = "Name"
                      /\ HasSerializerMarker(st.value.id))
        nested == SelectSeq(fn.body, LAMBDA st :
                      /\ IsResponseCall(st.value) /\ st.value.pnode = "CallData"
                      /\ HasSerializerMarker(st.value.pid))
    IN  [i \in DOMAIN direct |->
            <<direct[i].value.id, direct[i].value.arg \in {"kw_data", "kw_partial"}>>]
        \o [i \in DOMAIN nested |-> <<nested[i].value.pid, FALSE>>]

\* the last schema construction of one kind, or None
LastSerializer(calls, is_input) ==
    LET ofKind == SelectSeq(calls, LAMBDA c : c[2] = is_input) IN
    IF ofKind = <<>> THEN None ELSE ofKind[Len(ofKind)][1]

\* ServiceScanner.visit_FunctionDef inside a service class: the entry stored
ServiceSignature(fn) ==
    [input |-> LastSerializer(ServiceSerializerCalls(fn), TRUE),
     output |-> LastSerializer(ServiceSerializerCalls(fn), FALSE),
     query_params |-> ListOfSet(ServiceQueryParams(fn))]

RECURSIVE ServiceMethodsFrom(_, _, _, _)
ServiceMethodsFrom(sm, cls, body, i) ==
    IF i > Len(body) THEN sm
    ELSE ServiceMethodsFrom(
             IF body[i].kind = "FunctionDef"
             THEN DictSet(sm, cls \o "." \o body[i].name, ServiceSignature(body[i]))
             ELSE sm,
             cls, body, i + 1)

\* ServiceScanner.visit_ClassDef
ServiceVisitClassDef(sm, node) ==
    IF HasServiceMarker(node.name) THEN ServiceMethodsFrom(sm, node.name, node.body, 1)
    ELSE sm

(***************************************************************************)
(* URLVisitor.  A route string is the sequence of its tokens, "/" being a  *)
(* token of its own.  An element of urlpatterns is [func ("path",          *)
(* "re_path" or "other"), nargs, route_const (whether the first argument   *)
(* is a constant), route, vkind, vname]; vkind is the shape of the second  *)
(* argument: "AsViewName" (X.as_view()), "AsViewAttr" (m.X.as_view()),     *)
(* "Include" (include(...)), "Attribute" (m.f), "Name" (f) or "Other".     *)
(***************************************************************************)
RouteCall(func, nargs, route, vkind, vname) ==
    [func |-> func, nargs |-> nargs, route_const |-> TRUE, route |-> route,
     vkind |-> vkind, vname |-> vname]

get_view_name_from_node(item) ==
    IF item.vkind \in {"AsViewName", "AsViewAttr", "Attribute", "Name"} THEN item.vname
    ELSE "Unknown"

\* process_path raises when the call has fewer than two arguments
ProcessPathRaises(item) == item.nargs < 2

\* URLVisitor.process_path: the pattern appended
process_path(prefix, item) ==
    LET route == IF item.route_const THEN item.route ELSE <<>>
        full_route == prefix \o route
    IN  IF item.vkind = "Include"
        THEN [path |-> Append(full_route, "*"), view |-> "INCLUDE"]
        ELSE [path |-> full_route, view |-> get_view_name_from_node(item)]

RECURSIVE UrlPatternsFrom(_, _, _)
\* URLVisitor.visit_Assign on urlpatterns = [...]: patterns, or raised
UrlPatternsFrom(r, items, i) ==
    IF i > Len(items) \/ r.raised THEN r
    ELSE UrlPatternsFrom(
             IF items[i].func \in {"path", "re_path"}
             THEN IF ProcessPathRaises(items[i]) THEN [r EXCEPT !.raised = TRUE]
                  ELSE [r EXCEPT !.patterns = Append(@, process_path(<<>>, items[i]))]
             ELSE r,
             items, i + 1)

\* url["path"].lstrip("/")
RECURSIVE Lstrip(_)
Lstrip(route) ==
    IF route # <<>> /\ Head(route) = "/" THEN Lstrip(Tail(route)) ELSE route

\* the endpoint linking appends for a route whose view is extracted
Endpoint(url, v_data) ==
    [path |-> <<"/">> \o Lstrip(url.path), view |-> url.view,
     doc |-> v_data.doc, methods |-> v_data.methods]


(***************************************************************************)
(* scan_project.  A source file is [parts (the parts of its path), classes *)
(* (its top-level class definitions), urlpatterns (the elements of the     *)
(* list assigned to urlpatterns)].  An entry of the enumerated tree is     *)
(* [path, loads]: loads is "ok" when open() and ast.parse() succeed,       *)
(* "unreadable" when open() or read() raises, "syntax_error" when          *)
(* ast.parse() raises.                                                     *)
(***************************************************************************)
SourceFile(parts, classes, urlpatterns) ==
    [parts |-> parts, classes |-> classes, urlpatterns |-> urlpatterns]

\* ".venv" in path.parts or "migrations" in path.parts
Excluded(file) == ".venv" \in Range(file.parts) \/ "migrations" \in Range(file.parts)

FileName(file) == file.parts[Len(file.parts)]

\* "models" in path.name or "models" in str(path), for the paths of the model
IsModelsPath(file) == \E i \in DOMAIN file.parts : file.parts[i] \in {"models", "models.py"}

\* any(keyword in path.name for keyword in ["service", "manager", "handler"])
IsServicePath(file) == FileName(file) \in {"services.py", "managers.py", "handlers.py"}

\* root.rglob("urls.py")
IsUrlsPath(file) == FileName(file) = "urls.py"

\* dict.update
Update(d, e) == [k \in DOMAIN d \cup DOMAIN e |-> IF k \in DOMAIN e THEN e[k] ELSE d[k]]

RECURSIVE ModelsFrom(_, _, _)
\* ModelScanner.visit(tree)
ModelsFrom(models, classes, i) ==
    IF i > Len(classes) THEN models
    ELSE ModelsFrom(ModelVisitClassDef(models, classes[i]), classes, i + 1)

RECURSIVE SerializersFrom(_, _, _, _)
\* SerializerScanner.visit(tree)
SerializersFrom(sc, classes, i, mmap) ==
    IF i > Len(classes) THEN sc
    ELSE SerializersFrom(SerializerVisitClassDef(sc, classes[i], mmap), classes, i + 1, mmap)

RECURSIVE ServicesFrom(_, _, _)
\* ServiceScanner.visit(tree)
ServicesFrom(sm, classes, i) ==
    IF i > Len(classes) THEN sm
    ELSE ServicesFrom(ServiceVisitClassDef(sm, classes[i]), classes, i + 1)

RECURSIVE ViewsFrom(_, _, _, _)
\* ViewVisitor.visit(tree): the views of the file, or raised
ViewsFrom(r, classes, i, smap) ==
    IF i > Len(classes) \/ r.raised THEN r
    ELSE ViewsFrom(visit_ClassDef(r.views, classes[i], smap), classes, i + 1, smap)

\* whether the body of the try of a phase completes for the file: the file
\* loads and the visit does not raise
ViewsRaise(file, smap) ==
    ViewsFrom([raised |-> FALSE, views |-> EmptyDict], file.classes, 1, smap).raised

\* the test of a visitor that appends to the list of all routes itself: its
\* failure comes after the routes it found were added
UrlsRaiseAfterMerge(file) == FALSE

UrlsRaise(file) ==
    UrlPatternsFrom([raised |-> FALSE, patterns |-> <<>>], file.urlpatterns, 1).raised

\* "except: continue": the position of the loop after a file that failed
BreakAfterFailure(pos, n) == n + 1

ContinueAfterFailure(pos, n) == pos + 1

\* what one iteration of each phase's loop merges into its aggregate
ModelsOfFile(file) == ModelsFrom(EmptyDict, file.classes, 1)

SerializersOfFile(file, mmap) ==
    SerializersFrom(NewSerializerScanner, file.classes, 1, mmap).serializers

ServicesOfFile(file) == ServicesFrom(EmptyDict, file.classes, 1)

ViewsOfFile(file, smap) ==
    ViewsFrom([raised |-> FALSE, views |-> EmptyDict], file.classes, 1, smap).views

PatternsOfFile(file) ==
    UrlPatternsFrom([raised |-> FALSE, patterns |-> <<>>], file.urlpatterns, 1).patterns

\* "if v_name in all_views": whether linking emits an endpoint for the route
LinksOnce(url, vs, docs) ==
    url.view \in DOMAIN vs /\ \A i \in DOMAIN docs : docs[i].view # url.view

Links(url, vs, docs) == url.view \in DOMAIN vs


(***************************************************************************)
(* The source tree of the scans.                                           *)
(***************************************************************************)
MaxFiles == 3       \* files root.rglob("*.py") enumerates

\* class UserSerializer(serializers.ModelSerializer):
\*     email = serializers.EmailField(required=False)
\*     class Meta: model = User; fields = "__all__"
UserSerializerClass ==
    [NoClass EXCEPT !.name = "UserSerializer",
                    !.bases = <<AttributeBase("ModelSerializer")>>,
                    !.body = <<FieldAssign("email", "EmailField", <<Kw("required", "False")>>),
                               MetaClass("Name", "User", "all", <<>>)>>]

\* class UserService:
\*     def create(self, request):
\*         s = InSerializer(data=request.data)
\*         q = request.query_params.get("q"); page = request.GET["page"]
\*         OutSerializer(obj)
UserServiceClass ==
    [NoClass EXCEPT !.name = "UserService",
                    !.body = <<FunctionDef("create",
                        <<Assign("s", SerCall("InSerializer", "kw_data")),
                          Assign("q", AttrMethodCall("request", "query_params", "get", "q")),
                          Assign("page", AttrSubscript("request", "GET", "page")),
                          ExprStmt(SerCall("OutSerializer", "pos_other"))>>)>>]

\* class UserView(ListCreateAPIView): serializer_class = UserSerializer
UserViewClass ==
    [NoClass EXCEPT !.name = "UserView", !.bases = <<NameBase("ListCreateAPIView")>>,
                    !.doc = "Users.", !.serializer_class = "UserSerializer"]

\* class ItemView(ViewSet): def list(self, request): pass
ItemViewClass ==
    [NoClass EXCEPT !.name = "ItemView", !.bases = <<NameBase("ViewSet")>>,
                    !.body = <<FunctionDef("list", BodyPass)>>]

\* class SearchView(APIView):
\*     def get(self, request): q = ...get("q"); page = request.GET["page"]
\*     def post(self, request): UserService.create(request)
SearchViewClass ==
    [NoClass EXCEPT !.name = "SearchView", !.bases = <<NameBase("APIView")>>,
                    !.body = <<FunctionDef("get", BodyQuery),
                               FunctionDef("post",
                                   <<ExprStmt(NameMethodCall("UserService", "create", "",
                                                             "pos_request"))>>)>>]

\* class UserView(APIView): def delete(self, request): pass
StaleUserViewClass ==
    [NoClass EXCEPT !.name = "UserView", !.bases = <<NameBase("APIView")>>,
                    !.doc = "Stale.", !.body = <<FunctionDef("delete", BodyPass)>>]

\* class PingView(APIView): def get(...): pass
PingViewClass ==
    [NoClass EXCEPT !.name = "PingView", !.bases = <<NameBase("APIView")>>,
                    !.body = <<FunctionDef("get", BodyPass)>>]

\* class BadView(APIView): def put(self, request): return Response({name: 1})
BadViewClass ==
    [NoClass EXCEPT !.name = "BadView", !.bases = <<NameBase("APIView")>>,
                    !.body = <<FunctionDef("put", BodyRaises)>>]

AppUrls ==
    <<RouteCall("path", 2, <<"users", "/">>, "AsViewName", "UserView"),
      RouteCall("path", 2, <<"api", "/">>, "Include", ""),
      RouteCall("path", 2, <<"/", "items", "/">>, "AsViewAttr", "ItemView"),
      RouteCall("re_path", 2, <<"ghost", "/">>, "AsViewName", "GhostView"),
      RouteCall("path", 2, <<"users", "/">>, "AsViewName", "UserView")>>

ApiUrls ==
    <<RouteCall("path", 2, <<"search", "/">>, "AsViewName", "SearchView"),
      RouteCall("other", 0, <<>>, "Other", ""),
      RouteCall("path", 2, <<"ping", "/">>, "Name", "PingView")>>

\* class UserSerializer(serializers.ModelSerializer):
\*     class Meta: model = User; fields = "__all__"
AllFieldsSerializerClass ==
    [NoClass EXCEPT !.name = "UserSerializer",
                    !.bases = <<AttributeBase("ModelSerializer")>>,
                    !.body = <<MetaClass("Name", "User", "all", <<>>)>>]

\* class UserList(ListAPIView): serializer_class = UserSerializer
UserListClass ==
    [NoClass EXCEPT !.name = "UserList", !.bases = <<NameBase("ListAPIView")>>,
                    !.serializer_class = "UserSerializer"]

\* urlpatterns = [path("/users/", UserList.as_view())]
UsersUrls == <<RouteCall("path", 2, <<"/", "users", "/">>, "AsViewName", "UserList")>>

\* urlpatterns = [path("ping/", PingView), path("broken"),
\*                path("search/", SearchView.as_view())]
BrokenUrls ==
    <<RouteCall("path", 2, <<"ping", "/">>, "Name", "PingView"),
      RouteCall("path", 1, <<"broken">>, "Other", ""),
      RouteCall("path", 2, <<"search", "/">>, "AsViewName", "SearchView")>>

\* class INCLUDE(APIView): def get(self, request): pass
IncludeViewClass ==
    [NoClass EXCEPT !.name = "INCLUDE", !.bases = <<NameBase("APIView")>>,
                    !.doc = "Imports.", !.body = <<FunctionDef("get", BodyPass)>>]

\* the paths of the project trees, and those of the users application
ProjectPaths ==
    {"app/models.py", "app/serializers.py", "app/services.py", "app/views.py",
     "app/urls.py", "api/urls.py", "api/views.py", ".venv/views.py"}

UsersPaths == {"users/models.py", "users/serializers.py", "users/views.py", "users/urls.py"}

\* a tree with a delegating route and a handler class named as the sentinel
IncludePaths == {"app/urls.py", "inc/views.py", "app/views.py", "api/urls.py"}

\* a tree with a route file and a handler file whose analysis raises midway
BrokenPaths == {"broken/urls.py", "api/views.py", "api/urls.py", "app/views.py",
                "app/services.py"}

\* the files of the project, by path
SourceFiles ==
    [p \in ProjectPaths \cup UsersPaths \cup BrokenPaths \cup IncludePaths |->
        CASE p = "broken/urls.py" -> SourceFile(<<"broken", "urls.py">>, <<>>, BrokenUrls)
          [] p = "inc/views.py" ->
                 SourceFile(<<"inc", "views.py">>, <<IncludeViewClass>>, <<>>)
          [] p = "users/models.py" ->
                 SourceFile(<<"users", "models.py">>, <<UserModelClass>>, <<>>)
          [] p = "users/serializers.py" ->
                 SourceFile(<<"users", "serializers.py">>, <<AllFieldsSerializerClass>>, <<>>)
          [] p = "users/views.py" ->
                 SourceFile(<<"users", "views.py">>, <<UserListClass>>, <<>>)
          [] p = "users/urls.py" -> SourceFile(<<"users", "urls.py">>, <<>>, UsersUrls)
          [] p = "app/models.py" ->
                 SourceFile(<<"app", "models.py">>, <<UserModelClass>>, <<>>)
          [] p = "app/serializers.py" ->
                 SourceFile(<<"app", "serializers.py">>, <<UserSerializerClass>>, <<>>)
          [] p = "app/services.py" ->
                 SourceFile(<<"app", "services.py">>, <<UserServiceClass>>, <<>>)
          [] p = "app/views.py" ->
                 SourceFile(<<"app", "views.py">>,
                            <<UserViewClass, ItemViewClass, SearchViewClass>>, <<>>)
          [] p = "app/urls.py" -> SourceFile(<<"app", "urls.py">>, <<>>, AppUrls)
          [] p = "api/urls.py" -> SourceFile(<<"api", "urls.py">>, <<>>, ApiUrls)
          [] p = "api/views.py" ->
                 SourceFile(<<"api", "views.py">>, <<PingViewClass, BadViewClass>>, <<>>)
          [] p = ".venv/views.py" ->
                 SourceFile(<<".venv", "views.py">>, <<StaleUserViewClass>>, <<>>)]

LoadStates == {"ok", "unreadable", "syntax_error"}

\* the trees: files of distinct paths in some enumeration order, at most one
\* of which does not load
IsTree(t) ==
    /\ \A i, j \in DOMAIN t : t[i].path = t[j].path => i = j
    /\ \A i, j \in DOMAIN t : (t[i].loads # "ok" /\ t[j].loads # "ok") => i = j

FileAt(t, i) == SourceFiles[t[i].path]

Loads(t, i) == t[i].loads = "ok"


(***************************************************************************)
(* SpecScan: one scan_project call, one loop iteration per step.           *)
(* SpecRescan: the same tree scanned a second time, by a new process.      *)
(***************************************************************************)
\* the root directory given to scan_project: a directory that can be listed,
\* a path that does not exist, or a directory that cannot be listed
RootStates == {"ok", "missing", "unlistable"}

\* root.rglob(pattern): the files under the root in enumeration order;
\* Path.rglob yields nothing when the root is not a directory and swallows
\* the PermissionError of a directory it cannot list
Rglob(access, t) == IF access = "ok" THEN t ELSE <<>>

InitScan ==
    /\ \E n \in 0..MaxFiles :
       \E t \in [1..n -> [path : ProjectPaths, loads : LoadStates]] :
           /\ IsTree(t)
           /\ \E access \in RootStates :
                  /\ root_access = access
                  /\ scan_tree = Rglob(access, t)
    /\ hash_order \in HashOrders
    /\ scan_phase = "models"
    /\ scan_pos = 1
    /\ models_map = EmptyDict
    /\ serializers_map = EmptyDict
    /\ service_map = EmptyDict
    /\ all_views = EmptyDict
    /\ all_urls = <<>>
    /\ final_docs = <<>>
    /\ scan_run = 1
    /\ first_result = <<>>
    /\ class_serializer = None
    /\ IdleWalk
    /\ IdleWrap
    /\ IdleView
    /\ scanner = <<>> /\ ser_node = <<>> /\ ser_pc = "idle" /\ ser_pos = 1
    /\ IdleTrav

\* the scan of a tree with files whose analysis raises midway
InitBroken ==
    /\ \E n \in 0..MaxFiles :
       \E t \in [1..n -> [path : BrokenPaths, loads : LoadStates]] :
           /\ IsTree(t)
           /\ scan_tree = t
    /\ root_access = "ok"
    /\ hash_order \in HashOrders
    /\ scan_phase = "models"
    /\ scan_pos = 1
    /\ models_map = EmptyDict
    /\ serializers_map = EmptyDict
    /\ service_map = EmptyDict
    /\ all_views = EmptyDict
    /\ all_urls = <<>>
    /\ final_docs = <<>>
    /\ scan_run = 1
    /\ first_result = <<>>
    /\ class_serializer = None
    /\ IdleWalk
    /\ IdleWrap
    /\ IdleView
    /\ scanner = <<>> /\ ser_node = <<>> /\ ser_pc = "idle" /\ ser_pos = 1
    /\ IdleTrav

\* the scan of a tree with a delegating route
InitInclude ==
    /\ \E n \in 0..MaxFiles :
       \E t \in [1..n -> [path : IncludePaths, loads : LoadStates]] :
           /\ IsTree(t)
           /\ scan_tree = t
    /\ root_access = "ok"
    /\ hash_order \in HashOrders
    /\ scan_phase = "models"
    /\ scan_pos = 1
    /\ models_map = EmptyDict
    /\ serializers_map = EmptyDict
    /\ service_map = EmptyDict
    /\ all_views = EmptyDict
    /\ all_urls = <<>>
    /\ final_docs = <<>>
    /\ scan_run = 1
    /\ first_result = <<>>
    /\ class_serializer = None
    /\ IdleWalk
    /\ IdleWrap
    /\ IdleView
    /\ scanner = <<>> /\ ser_node = <<>> /\ ser_pc = "idle" /\ ser_pos = 1
    /\ IdleTrav

\* the scan of the users application: its four files in any enumeration order
InitUsers ==
    /\ \E t \in [1..Cardinality(UsersPaths) -> [path : UsersPaths, loads : {"ok"}]] :
           /\ IsTree(t)
           /\ scan_tree = t
    /\ root_access = "ok"
    /\ hash_order \in HashOrders
    /\ scan_phase = "models"
    /\ scan_pos = 1
    /\ models_map = EmptyDict
    /\ serializers_map = EmptyDict
    /\ service_map = EmptyDict
    /\ all_views = EmptyDict
    /\ all_urls = <<>>
    /\ final_docs = <<>>
    /\ scan_run = 1
    /\ first_result = <<>>
    /\ class_serializer = None
    /\ IdleWalk
    /\ IdleWrap
    /\ IdleView
    /\ scanner = <<>> /\ ser_node = <<>> /\ ser_pc = "idle" /\ ser_pos = 1
    /\ IdleTrav

InPhase(phase) == scan_phase = phase /\ scan_pos <= Len(scan_tree)

\* the position after the iteration: "continue" when the try body raised
AfterFile(failed) ==
    IF failed THEN ContinueAfterFailure(scan_pos, Len(scan_tree)) ELSE scan_pos + 1

\* Phase 0a: one file of the models loop
ScanModelsFile ==
    /\ InPhase("models")
    /\ LET file == FileAt(scan_tree, scan_pos)
           tried == ~Excluded(file) /\ IsModelsPath(file)
           failed == tried /\ ~Loads(scan_tree, scan_pos)
       IN  /\ models_map' = IF tried /\ ~failed
                            THEN Update(models_map, ModelsOfFile(file)) ELSE models_map
           /\ scan_pos' = AfterFile(failed)
    /\ UNCHANGED <<root_access, scan_tree, scan_phase, all_views, all_urls, serializers_map, final_docs,
                   scan_run, first_result, service_map, hash_order>>
    /\ UNCHANGED outsideScan

\* Phase 0b: one file of the serializers loop
ScanSerializersFile ==
    /\ InPhase("serializers")
    /\ LET file == FileAt(scan_tree, scan_pos)
           tried == ~Excluded(file)
           failed == tried /\ ~Loads(scan_tree, scan_pos)
       IN  /\ serializers_map' = IF tried /\ ~failed
                                 THEN Update(serializers_map,
                                             SerializersOfFile(file, models_map))
                                 ELSE serializers_map
           /\ scan_pos' = AfterFile(failed)
    /\ UNCHANGED <<root_access, scan_tree, scan_phase, all_views, all_urls, models_map, final_docs,
                   scan_run, first_result, service_map, hash_order>>
    /\ UNCHANGED outsideScan

\* Phase 1: one file of the service loop
ScanServicesFile ==
    /\ InPhase("services")
    /\ LET file == FileAt(scan_tree, scan_pos)
           tried == ~Excluded(file) /\ IsServicePath(file)
           failed == tried /\ ~Loads(scan_tree, scan_pos)
       IN  /\ service_map' = IF tried /\ ~failed
                             THEN Update(service_map, ServicesOfFile(file)) ELSE service_map
           /\ scan_pos' = AfterFile(failed)
    /\ UNCHANGED <<root_access, scan_tree, scan_phase, all_views, all_urls, models_map, serializers_map,
                   final_docs, scan_run, first_result, hash_order>>
    /\ UNCHANGED outsideScan

\* Phase 2: one file of the views loop
ScanViewsFile ==
    /\ InPhase("views")
    /\ LET file == FileAt(scan_tree, scan_pos)
           tried == ~Excluded(file)
           failed == tried /\ (~Loads(scan_tree, scan_pos) \/ ViewsRaise(file, service_map))
       IN  /\ all_views' = IF tried /\ ~failed
                           THEN Update(all_views, ViewsOfFile(file, service_map))
                           ELSE all_views
           /\ scan_pos' = AfterFile(failed)
    /\ UNCHANGED <<root_access, scan_tree, scan_phase, all_urls, models_map, serializers_map, final_docs,
                   scan_run, first_result, service_map, hash_order>>
    /\ UNCHANGED outsideScan

\* Phase 3: one file of the urls loop
ScanUrlsFile ==
    /\ InPhase("urls")
    /\ LET file == FileAt(scan_tree, scan_pos)
           tried == IsUrlsPath(file) /\ ~Excluded(file)
           failed == tried /\ (~Loads(scan_tree, scan_pos) \/ UrlsRaise(file))
       IN  /\ all_urls' = IF tried /\ ~failed
                          THEN all_urls \o PatternsOfFile(file) ELSE all_urls
           /\ scan_pos' = AfterFile(failed)
    /\ UNCHANGED <<root_access, scan_tree, scan_phase, all_views, models_map, serializers_map, final_docs,
                   scan_run, first_result, service_map, hash_order>>
    /\ UNCHANGED outsideScan

\* the order of the loops with the handler loop before the service loop
NextPhaseOfViewsFirst(phase) ==
    CASE phase = "models" -> "serializers"
      [] phase = "serializers" -> "views"
      [] phase = "views" -> "services"
      [] phase = "services" -> "urls"
      [] phase = "urls" -> "linking"

NextPhaseOf(phase) ==
    CASE phase = "models" -> "serializers"
      [] phase = "serializers" -> "services"
      [] phase = "services" -> "views"
      [] phase = "views" -> "urls"
      [] phase = "urls" -> "linking"

\* a loop over the files ends: the next phase is announced and starts
ScanNextPhase ==
    /\ scan_phase \in {"models", "serializers", "services", "views", "urls"}
    /\ scan_pos > Len(scan_tree)
    /\ scan_phase' = NextPhaseOf(scan_phase)
    /\ scan_pos' = 1
    /\ UNCHANGED <<root_access, scan_tree, all_views, all_urls, models_map, serializers_map, final_docs,
                   scan_run, first_result, service_map, hash_order>>
    /\ UNCHANGED outsideScan

\* Phase 4: one route of the linking loop
ScanLinkRoute ==
    /\ scan_phase = "linking"
    /\ scan_pos <= Len(all_urls)
    /\ LET url == all_urls[scan_pos] IN
       final_docs' = IF Links(url, all_views, final_docs)
                     THEN Append(final_docs, Endpoint(url, all_views[url.view]))
                     ELSE final_docs
    /\ scan_pos' = scan_pos + 1
    /\ UNCHANGED <<root_access, scan_tree, scan_phase, all_views, all_urls, models_map, serializers_map,
                   scan_run, first_result, service_map, hash_order>>
    /\ UNCHANGED outsideScan

\* return final_docs, serializers_map
ScanReturn ==
    /\ scan_phase = "linking"
    /\ scan_pos > Len(all_urls)
    /\ scan_phase' = "done"
    /\ UNCHANGED <<root_access, scan_tree, scan_pos, all_views, all_urls, models_map, serializers_map,
                   final_docs, scan_run, first_result, service_map, hash_order>>
    /\ UNCHANGED outsideScan

\* the command is run again on the unchanged tree: a new process, with its
\* own hash seed, calls scan_project
ScanAgain ==
    /\ scan_phase = "done"
    /\ scan_run = 1
    /\ first_result' = <<final_docs, serializers_map>>
    /\ scan_run' = 2
    /\ hash_order' \in HashOrders
    /\ scan_phase' = "models"
    /\ scan_pos' = 1
    /\ models_map' = EmptyDict
    /\ serializers_map' = EmptyDict
    /\ service_map' = EmptyDict
    /\ all_views' = EmptyDict
    /\ all_urls' = <<>>
    /\ final_docs' = <<>>
    /\ UNCHANGED <<root_access, scan_tree>>
    /\ UNCHANGED outsideScan

NextScan ==
    \/ ScanModelsFile
    \/ ScanSerializersFile
    \/ ScanServicesFile
    \/ ScanViewsFile
    \/ ScanUrlsFile
    \/ ScanNextPhase
    \/ ScanLinkRoute
    \/ ScanReturn

SpecScan == InitScan /\ [][NextScan]_vars

\* every step of scan_project moves the loop position or the phase, and one
\* is possible until the call has returned
ScanAdvances ==
    /\ scan_phase # "done"
    /\ \E phase \in {"models", "serializers", "services", "views", "urls", "linking", "done"} :
       \E pos \in 1..(Len(scan_tree) + Len(all_urls) + 1) :
           /\ <<phase, pos>> # <<scan_phase, scan_pos>>
           /\ scan_phase' = phase
           /\ scan_pos' = pos

\* the interpreter runs the call to its end: it keeps taking steps
SpecScanFair == SpecScan /\ WF_<<scan_phase, scan_pos>>(ScanAdvances)

SpecUsers == InitUsers /\ [][NextScan]_vars

SpecBroken == InitBroken /\ [][NextScan]_vars

SpecInclude == InitInclude /\ [][NextScan]_vars

NextRescan == NextScan \/ ScanAgain

SpecRescan == InitScan /\ [][NextRescan]_vars


(***************************************************************************)
(* Properties of the scan, under SpecScan, SpecScanFair and SpecRescan.    *)
(***************************************************************************)
ScanDone == scan_phase = "done"

\* C1: every endpoint of the endpoint list has at least one method.
C1_EndpointsHaveMethods ==
    \A i \in DOMAIN final_docs : final_docs[i].methods # EmptyDict

\* C2: every method specification of the endpoint list carries a response
\* map, from status code to response entry, with at least one entry.
C2_MethodsHaveResponseMap ==
    \A i \in DOMAIN final_docs : \A verb \in DOMAIN final_docs[i].methods :
        /\ "response_details" \in DOMAIN final_docs[i].methods[verb]
        /\ final_docs[i].methods[verb].response_details # EmptyDict

\* the route files of a tree that contribute, in enumeration order
RouteFiles(t) ==
    SelectSeq(t, LAMBDA f :
        /\ f.loads = "ok"
        /\ IsUrlsPath(SourceFiles[f.path])
        /\ ~Excluded(SourceFiles[f.path])
        /\ ~UrlsRaise(SourceFiles[f.path]))

RECURSIVE DeclaredRoutes(_)
\* the routes the files declare, file after file, each in declaration order
DeclaredRoutes(files) ==
    IF files = <<>> THEN <<>>
    ELSE LET calls == SelectSeq(SourceFiles[Head(files).path].urlpatterns,
                                LAMBDA c : c.func \in {"path", "re_path"})
         IN  [i \in DOMAIN calls |-> process_path(<<>>, calls[i])]
             \o DeclaredRoutes(Tail(files))

\* C8: the endpoint list is the subsequence of the discovered routes whose
\* view names an extracted handler class, one endpoint per such route, in
\* the order of the route list.
C8_EndpointsAreRouteSubsequence ==
    ScanDone =>
        LET linked == SelectSeq(DeclaredRoutes(RouteFiles(scan_tree)),
                                LAMBDA url : url.view \in DOMAIN all_views)
        IN  /\ all_urls = DeclaredRoutes(RouteFiles(scan_tree))
            /\ Len(final_docs) = Len(linked)
            /\ \A i \in DOMAIN linked :
                   /\ final_docs[i].view = linked[i].view
                   /\ final_docs[i].path = <<"/">> \o Lstrip(linked[i].path)
                   /\ final_docs[i].doc = all_views[linked[i].view].doc
                   /\ final_docs[i].methods = all_views[linked[i].view].methods

\* two route files, a route repeated, routes that name no extracted class
C8_Witness ==
    /\ ScanDone
    /\ Len(RouteFiles(scan_tree)) = 2
    /\ Len(final_docs) = 4
    /\ Len(all_urls) = 7
    /\ final_docs[1].view = "SearchView"
    /\ final_docs[2].view = "UserView"
    /\ final_docs[3].view = "ItemView"
    /\ final_docs[4] = final_docs[2]

\* C9: a second scan of the unchanged tree returns the endpoint list and the
\* schema map the first scan returned.
C9_RescanIdentical ==
    (scan_run = 2 /\ ScanDone) => <<final_docs, serializers_map>> = first_result


\* the files of a tree that load
LoadingFiles(t) == SelectSeq(t, LAMBDA f : f.loads = "ok")

\* the files a phase reads and whose visit completes, in enumeration order
PhaseFiles(t, phase, smap) ==
    SelectSeq(t, LAMBDA f :
        LET file == SourceFiles[f.path] IN
        /\ ~Excluded(file)
        /\ phase = "models" => IsModelsPath(file)
        /\ phase = "services" => IsServicePath(file)
        /\ phase = "views" => ~ViewsRaise(file, smap)
        /\ phase = "urls" => (IsUrlsPath(file) /\ ~UrlsRaise(file)))

RECURSIVE MergeAll(_, _)
\* the dicts of a sequence merged from the first to the last
MergeAll(d, dicts) ==
    IF dicts = <<>> THEN d ELSE MergeAll(Update(d, Head(dicts)), Tail(dicts))

\* what a scan of files that all load gives: the aggregates and the result
ExpectedScan(t) ==
    LET mfs == PhaseFiles(t, "models", EmptyDict)
        models == MergeAll(EmptyDict, [i \in DOMAIN mfs |-> ModelsOfFile(SourceFiles[mfs[i].path])])
        sfs == PhaseFiles(t, "serializers", EmptyDict)
        sers == MergeAll(EmptyDict,
                    [i \in DOMAIN sfs |-> SerializersOfFile(SourceFiles[sfs[i].path], models)])
        vfs == PhaseFiles(t, "services", EmptyDict)
        services == MergeAll(EmptyDict,
                        [i \in DOMAIN vfs |-> ServicesOfFile(SourceFiles[vfs[i].path])])
        hfs == PhaseFiles(t, "views", services)
        handlers == MergeAll(EmptyDict,
                        [i \in DOMAIN hfs |-> ViewsOfFile(SourceFiles[hfs[i].path], services)])
        urls == DeclaredRoutes(PhaseFiles(t, "urls", EmptyDict))
        linked == SelectSeq(urls, LAMBDA url : url.view \in DOMAIN handlers)
    IN  [models_map |-> models,
         serializers_map |-> sers,
         service_map |-> services,
         all_views |-> handlers,
         all_urls |-> urls,
         final_docs |-> [i \in DOMAIN linked |-> Endpoint(linked[i], handlers[linked[i].view])]]

\* C10: a file that cannot be read or parsed contributes to no aggregate and
\* does not stop the scan: the scan returns, and its aggregates and outputs
\* are those of the tree without the files that do not load.
C10_BrokenFileContained ==
    /\ [](ScanDone =>
            [models_map |-> models_map,
             serializers_map |-> serializers_map,
             service_map |-> service_map,
             all_views |-> all_views,
             all_urls |-> all_urls,
             final_docs |-> final_docs] = ExpectedScan(LoadingFiles(scan_tree)))
    /\ <>ScanDone

\* a route file that does not load is enumerated first, the handler file and
\* another route file after it still give their endpoints
C10_Witness ==
    /\ ScanDone
    /\ Len(scan_tree) = 3
    /\ scan_tree[1] = [path |-> "app/urls.py", loads |-> "syntax_error"]
    /\ scan_tree[2].path = "app/views.py"
    /\ scan_tree[3].path = "api/urls.py"
    /\ Len(final_docs) = 1
    /\ final_docs[1].view = "SearchView"
    /\ Len(all_urls) = 2


\* C11: when the scan root is inaccessible (it does not exist or cannot be
\* listed) scan_project fails and returns no endpoint list and schema map.
C11_InaccessibleRootFails == root_access # "ok" => ~ScanDone


\* C12 (Scenario A): model User{name, email null=True}, a schema selecting
\* all fields of User, a list-only generic handler using that schema and no
\* explicit get, routed at /users/: the scan returns exactly one endpoint,
\* at /users/, with exactly GET, whose response for 200 names the schema, and
\* the schema's field email carries Nullable.
C12_ScenarioA ==
    ScanDone =>
        /\ Len(final_docs) = 1
        /\ final_docs[1].path = <<"/", "users", "/">>
        /\ final_docs[1].view = "UserList"
        /\ DOMAIN final_docs[1].methods = {"GET"}
        /\ final_docs[1].methods["GET"].response = "200: UserSerializer"
        /\ "UserSerializer" \in DOMAIN serializers_map
        /\ "email" \in DOMAIN serializers_map["UserSerializer"].fields
        /\ "Nullable" \in Range(serializers_map["UserSerializer"].fields["email"].props)

\* the scan of the users application has returned, the route file enumerated
\* before the handler file and the schema file before the model file
C12_Witness ==
    /\ ScanDone
    /\ scan_tree[1].path = "users/urls.py"
    /\ scan_tree[2].path = "users/serializers.py"
    /\ scan_tree[3].path = "users/views.py"
    /\ scan_tree[4].path = "users/models.py"
    /\ Len(final_docs) = 1



(***************************************************************************)
(* SpecWrap: the type string of one schema field.  The extractor reads a   *)
(* type name, wraps it for many=True, and a consumer unwraps the stored    *)
(* string with get_base_type.                                              *)
(***************************************************************************)
MaxTypeLen == 3     \* pieces of a type name after its first characters

\* the pieces of a type name: an identifier piece and the two brackets
NamePieces == {"x", "[", "]"}

\* how a type name may begin: nothing special, "List", "List["
NameStarts == {<<>>, <<"L", "i", "s", "t">>, ListPrefix}

InitWrap ==
    /\ \E start \in NameStarts : \E n \in 0..MaxTypeLen : \E rest \in [1..n -> NamePieces] :
           /\ wrap_name = start \o rest
           /\ wrap_str = start \o rest
    /\ wrap_out = <<>>
    /\ wrap_pc = "named"
    /\ hash_order \in HashOrders
    /\ service_map = EmptyDict
    /\ class_serializer = None
    /\ IdleWalk
    /\ IdleView
    /\ IdleSer
    /\ IdleTrav
    /\ IdleScan

outsideWrap == <<walkVars, viewVars, serVars, travVars, scanVars>>

\* many=True: type_name = f"List[{type_name}]"
WrapMany ==
    /\ wrap_pc = "named"
    /\ wrap_str' = ListOf(wrap_str)
    /\ wrap_pc' = "wrapped"
    /\ UNCHANGED <<wrap_name, wrap_out>>
    /\ UNCHANGED outsideWrap

\* a consumer of the schema map: get_base_type(field["type"])
Unwrap ==
    /\ wrap_pc \in {"named", "wrapped"}
    /\ wrap_out' = get_base_type(wrap_str)
    /\ wrap_pc' = IF wrap_pc = "wrapped" THEN "unwrapped" ELSE "read"
    /\ UNCHANGED <<wrap_name, wrap_str>>
    /\ UNCHANGED outsideWrap

NextWrap == WrapMany \/ Unwrap

SpecWrap == InitWrap /\ [][NextWrap]_vars

\* a string of the form List[...]
IsListForm(t) == StartsWithList(t) /\ EndsWithBracket(t)

\* C13: for every type name T that is not itself of the form List[...],
\* get_base_type of the wrapped form List[T] is exactly T, and get_base_type
\* leaves every name that is not wrapped unchanged.
C13_WrapRoundTrip ==
    /\ (wrap_pc = "unwrapped" /\ ~IsListForm(wrap_name)) => wrap_out = wrap_name
    /\ (wrap_pc = "read" /\ ~IsListForm(wrap_name)) => wrap_out = wrap_name

\* a name that begins like a wrapped one and holds a closing bracket, but is
\* not of the form List[...], has been wrapped and unwrapped again
C13_Witness ==
    /\ wrap_pc = "unwrapped"
    /\ wrap_name = ListPrefix \o <<"]", "x">>
    /\ wrap_str = ListOf(wrap_name)
    /\ wrap_out = wrap_name


\* the statement the walk visits next is a call Name.method(...) whose key is
\* in the service map
AtServiceCall ==
    /\ Walking
    /\ method_node[walk_pos].stmt \in {"Assign", "Expr"}
    /\ method_node[walk_pos].value.node = "Call"
    /\ method_node[walk_pos].value.func = "Attribute"
    /\ method_node[walk_pos].value.base = "Name"
    /\ ServiceKey(method_node[walk_pos].value) \in DOMAIN service_map

CalledKey == ServiceKey(method_node[walk_pos].value)

\* C14: during the walk of one method the recorded input schema is
\* write-once: once set, by a schema construction given request data or by
\* a service call, no later step changes it or its provenance.
C14_InputWriteOnce ==
    [][~Falsy(visitor.input_serializer) =>
          /\ visitor'.input_serializer = visitor.input_serializer
          /\ visitor'.input_source = visitor.input_source]_vars

\* a service call recorded the input schema; a schema construction given
\* request data and a second service declaring an input were walked after it
C14_Witness ==
    /\ Len(method_node) = 3
    /\ method_node[1] = ExprStmt(NameMethodCall("UserService", "create", "", "pos_request"))
    /\ method_node[2] = Assign("form", SerCall("ProfileSerializer", "pos_request_data"))
    /\ method_node[3] = Assign("serializer", SerCall("UserSerializer", "kw_data"))
    /\ walk_pos = 4
    /\ visitor.input_serializer = "InSerializer"
    /\ visitor.input_source = "service:UserService.create"


\* the entry a service call writes for status 200
ServiceEntry(key) == [serializer |-> service_map[key].output, source |-> "service:" \o key]

\* C15: a service-call merge only fills an absent slot: a recorded entry for
\* 200 is left unchanged, the service's output is adopted for 200 (with
\* provenance service:<key>) only when no entry for 200 exists, and no entry
\* of another status code is touched.
C15_ServiceFillsAbsentSlot ==
    [][AtServiceCall =>
          /\ \A code \in DOMAIN visitor.responses :
                 /\ code \in DOMAIN visitor'.responses
                 /\ visitor'.responses[code] = visitor.responses[code]
          /\ DOMAIN visitor'.responses \subseteq DOMAIN visitor.responses \cup {"200"}
          /\ ("200" \in DOMAIN visitor'.responses /\ "200" \notin DOMAIN visitor.responses)
                 => visitor'.responses["200"] = ServiceEntry(CalledKey)]_vars

\* a return recorded 400 and a service call 200; a second service declaring
\* another output was then walked and left both entries as they were
C15_Witness ==
    /\ Len(method_node) = 3
    /\ method_node[1] = Return(ResponseCall("Dict", "", <<StrKey("detail")>>, "symbolic", "400"))
    /\ method_node[2] = Assign("order", NameMethodCall("OrderManager", "find", "", "pos_other"))
    /\ method_node[3] = ExprStmt(NameMethodCall("UserService", "create", "", "pos_request"))
    /\ walk_pos = 4
    /\ DOMAIN visitor.responses = {"200", "400"}
    /\ visitor.responses["200"] = ServiceEntry("OrderManager.find")

\* C16: for every key Name.method of the service map, whatever the method's
\* name, a call Name.method(...) triggers the service merge: the declared
\* input schema is adopted if none is recorded, the declared output schema
\* is adopted for 200 if that slot is absent.
C16_EveryServiceKeyMerges ==
    [][AtServiceCall =>
          /\ (Falsy(visitor.input_serializer) /\ ~Falsy(service_map[CalledKey].input))
                 => /\ visitor'.input_serializer = service_map[CalledKey].input
                    /\ visitor'.input_source = "service:" \o CalledKey
          /\ (~Falsy(service_map[CalledKey].output) /\ "200" \notin DOMAIN visitor.responses)
                 => /\ "200" \in DOMAIN visitor'.responses
                    /\ visitor'.responses["200"] = ServiceEntry(CalledKey)]_vars


\* the statement the walk visits next is `return Response(...)`
AtResponseReturn ==
    /\ Walking
    /\ method_node[walk_pos].stmt = "Return"
    /\ IsResponseCall(method_node[walk_pos].value)

Returned == method_node[walk_pos].value

\* the status the status keyword of a return stands for
StatedStatus(e) == IF e.skw \in {"symbolic", "literal"} THEN e.scode ELSE "200"

\* C17: the status of `return Response(...)` is resolved from its status
\* keyword: HTTP_<n>_... gives n, a literal integer n gives n, no status
\* keyword gives 200.
C17_StatusResolved ==
    [][(AtResponseReturn /\ ReturnFound(visitor, Returned) # None) =>
          /\ StatedStatus(Returned) \in DOMAIN visitor'.responses
          /\ visitor'.responses[StatedStatus(Returned)] =
                 [serializer |-> ReturnFound(visitor, Returned), source |-> "inferred"]]_vars


\* the return the walk visits next has a dictionary literal as its payload,
\* resolves to no schema and states a status other than 204
AtDictReturn ==
    /\ AtResponseReturn
    /\ Returned.pnode = "Dict"
    /\ ReturnFound(visitor, Returned) = None
    /\ StatedStatus(Returned) # "204"

\* the keys of a dictionary literal are statically known: string constants
KeysKnown(pkeys) == \A i \in DOMAIN pkeys : pkeys[i].k = "str"

\* Object{key1, key2, ...} in literal order, or the sentinel
DictDescriptor(pkeys) ==
    IF KeysKnown(pkeys)
    THEN "Object {" \o JoinComma([i \in DOMAIN pkeys |-> pkeys[i].v]) \o "}"
    ELSE "DynamicObject"

\* C18: a return whose payload is a dictionary literal that resolves to no
\* schema is recorded without raising: as Object{keys in literal order}
\* when the keys are statically known, as DynamicObject when they are not
\* (a key that is a variable or a non-string constant).
C18_DictReturnRecorded ==
    [][AtDictReturn =>
          /\ ~visitor'.raised
          /\ ResolveStatus(Returned) \in DOMAIN visitor'.responses
          /\ visitor'.responses[ResolveStatus(Returned)] =
                 [serializer |-> DictDescriptor(Returned.pkeys), source |-> "raw_dict"]]_vars

\* the payload of a return is resolvable: a bound variable, .data of a bound
\* instance, an inline schema construction, or a dictionary literal
Resolvable(v, e) == ReturnFound(v, e) # None \/ e.pnode = "Dict"

\* C19: a return is recorded as NoContent only when its status is 204 and it
\* has no resolvable payload; a return with status 204 that carries a
\* resolvable payload, a dictionary literal included, is recorded with that
\* payload's descriptor.
C19_NoContentOnlyWithoutPayload ==
    [][(AtResponseReturn /\ StatedStatus(Returned) = "204" /\ Resolvable(visitor, Returned)) =>
          /\ "204" \in DOMAIN visitor'.responses
          /\ visitor'.responses["204"].serializer # "NoContent"]_vars


\* a schema is bound in the body: a variable is assigned a construction of a
\* schema-marked type
BoundInBody(body) ==
    \E i \in DOMAIN body :
        /\ body[i].stmt = "Assign"
        /\ body[i].value.node = "Call"
        /\ body[i].value.func = "Name"
        /\ HasSerializerMarker(body[i].value.id)

\* the literal keys read from the request body: request.data[k], request.data.get(k)
KeysInBody(body) ==
    {body[i].value.key : i \in {j \in DOMAIN body :
        /\ body[j].value.node \in {"Subscript", "Call"}
        /\ body[j].value.base = "Attribute"
        /\ body[j].value.id = "request"
        /\ body[j].value.battr = "data"
        /\ body[j].value.node = "Call" => body[j].value.attr = "get"
        /\ body[j].value.key # ""}}

\* the walk of the body is over and analyze_method_logic has returned
Analysed == analysis # <<>>

\* C20: post-processing of a method walk.  With no schema bound and no input
\* schema recorded: RawBody{keys sorted} with provenance direct_raw_keys when
\* a literal key was read from the request body, else the bare RawBody with
\* provenance direct_raw when the request body is accessed.  With a schema
\* bound or an input schema recorded no RawBody descriptor is synthesized.
C20_RawBodyFallback ==
    Analysed =>
        LET keys == KeysInBody(method_node)
            plain == ~BoundInBody(method_node) /\ Falsy(visitor.input_serializer)
            request == analysis[1].request
        IN  /\ (plain /\ keys # {}) =>
                   request = <<"RawBody {" \o JoinComma(Sorted(keys)) \o "}", "direct_raw_keys">>
            /\ (plain /\ keys = {} /\ UsesRequestData(method_node)) =>
                   request = <<"RawBody", "direct_raw">>
            /\ ~plain => request = <<visitor.input_serializer, visitor.input_source>>

\* two keys were read from the request body, the later one first in sorted
\* order, and no schema was bound: the descriptor lists them sorted
C20_Witness ==
    /\ Analysed
    /\ Len(method_node) = 3
    /\ method_node[1] = ExprStmt(AttrMethodCall("request", "data", "get", "name"))
    /\ method_node[2] = Assign("email", AttrSubscript("request", "data", "email"))
    /\ method_node[3].stmt = "Return"
    /\ analysis[1].request = <<"RawBody {email, name}", "direct_raw_keys">>


(***************************************************************************)
(* Properties of the default policy of the handler extractor, under        *)
(* SpecView.                                                               *)
(***************************************************************************)
\* the verbs the backfill synthesized: implied by a base, defined by no method
BackfilledVerbs(node) == ImpliedVerbs(node) \ ExplicitVerbs(node)

\* the request an explicit method of the verb gets when its analysis yields
\* no request descriptor
DefaultRequest(verb, cs) ==
    IF verb \in {"POST", "PUT", "PATCH"} /\ ~Falsy(cs) THEN cs ELSE "NoBody"

\* the response an explicit method of the verb gets when its analysis
\* recorded no response
DefaultResponse(verb, cs) ==
    IF verb = "DELETE" THEN "204: NoContent"
    ELSE (IF verb = "POST" THEN "201: " ELSE "200: ")
         \o (IF Falsy(cs) THEN "Unknown" ELSE cs)

\* C21: every backfilled verb of a registered handler class has the request
\* an explicit method of that verb with an empty analysis would get (the
\* default schema for POST, PUT and PATCH when one is declared, NoBody
\* otherwise), the response of that policy (204: NoContent for DELETE, 201
\* for POST, 200 otherwise, with the default schema or Unknown), and the
\* provenance generic_default.
C21_BackfillUsesDefaultPolicy ==
    Registered
    => LET ms == views[class_node.name].methods
           cs == ClassSerializerOf(class_node)
       IN  \A verb \in BackfilledVerbs(class_node) :
               /\ ms[verb].request = DefaultRequest(verb, cs)
               /\ ms[verb].response = DefaultResponse(verb, cs)
               /\ ms[verb].req_source = "generic_default"
               /\ ms[verb].res_source = "generic_default"


(***************************************************************************)
(* SpecDefaults: ViewVisitor.visit_ClassDef on a class whose verb methods  *)
(* cover the four outcomes of the analysis: nothing, a request and a       *)
(* response, a response only, a request only.                              *)
(***************************************************************************)
\* return Response({"detail": 1}, status=status.HTTP_400_BAD_REQUEST)
BodyDetail ==
    <<Return(ResponseCall("Dict", "", <<StrKey("detail")>>, "symbolic", "400"))>>

\* x = request.data
BodyRawData == <<Assign("x", NameAttr("request", "data"))>>

DefaultsBases == {NameBase("APIView"), NameBase("ListCreateAPIView"), NameBase("Mixin")}

DefaultsItems ==
    {FunctionDef(n, b) : n \in VerbMethodNames,
                         b \in {BodyPass, BodySerializer, BodyDetail, BodyRawData}}

InitDefaults ==
    /\ \E m \in 0..(MaxClassSize - 1) :
       \E b \in DefaultsBases : \E items \in [1..m -> DefaultsItems] :
       \E sc \in {None, "ProfileSerializer"} :
           class_node = ViewClass(<<b>>, items, sc)
    /\ view_pc = "start"
    /\ item_pos = 1
    /\ base_pos = 1
    /\ methods = EmptyDict
    /\ views = EmptyDict
    /\ class_serializer = None
    /\ hash_order \in HashOrders
    /\ service_map = WalkServiceMap
    /\ IdleWalk
    /\ IdleWrap
    /\ IdleSer
    /\ IdleTrav
    /\ IdleScan

SpecDefaults == InitDefaults /\ [][NextView]_vars


(***************************************************************************)
(* Properties of the fallbacks of explicit verb methods, under             *)
(* SpecDefaults.                                                           *)
(***************************************************************************)
\* the analysis of the i-th item of the class body
ItemAnalysis(node, i) ==
    analyze_method_logic(node.body[i].body, ClassSerializerOf(node), node.body[i].name,
                         service_map)

\* the items whose method specification is in effect after extraction
EffectiveItems(node) ==
    {i \in DOMAIN node.body :
        node.body[i].name \in VerbMethodNames /\ LastDefinition(node, i)}

\* C22: for every explicit verb method of a registered handler class, when
\* the analysis yields no request descriptor the request is the declared
\* default schema with provenance class_default if the verb is POST, PUT or
\* PATCH and a default schema is declared, and NoBody in every other case;
\* when the analysis yields a request descriptor, the request and its
\* provenance are the analysed ones.
C22_RequestFallback ==
    Registered
    => LET ms == views[class_node.name].methods
           cs == ClassSerializerOf(class_node)
       IN  \A i \in EffectiveItems(class_node) :
               LET verb == Upper(class_node.body[i].name)
                   a == ItemAnalysis(class_node, i)
               IN  IF Falsy(a.request[1]) THEN
                       IF verb \in {"POST", "PUT", "PATCH"} /\ ~Falsy(cs)
                       THEN /\ ms[verb].request = cs
                            /\ ms[verb].req_source = "class_default"
                       ELSE ms[verb].request = "NoBody"
                   ELSE /\ ms[verb].request = a.request[1]
                        /\ ms[verb].req_source = a.request[2]

\* a class with a declared default schema whose explicit PATCH analyses to no
\* request and gets the default schema, and whose explicit PUT keeps the
\* request its analysis found
C22_Witness ==
    /\ Registered
    /\ ClassSerializerOf(class_node) = "ProfileSerializer"
    /\ DOMAIN views[class_node.name].methods = {"PATCH", "PUT"}
    /\ \A i \in DOMAIN class_node.body :
           class_node.body[i].name = "patch"
           => Falsy(ItemAnalysis(class_node, i).request[1])
    /\ views[class_node.name].methods["PATCH"].request = "ProfileSerializer"
    /\ views[class_node.name].methods["PATCH"].req_source = "class_default"
    /\ views[class_node.name].methods["PUT"].req_source = "direct_raw"
    /\ views[class_node.name].methods["PUT"].request = "RawBody"


\* the status of the default response of a verb
DefaultStatus(verb) ==
    IF verb = "DELETE" THEN "204" ELSE IF verb = "POST" THEN "201" ELSE "200"

\* C23: for every explicit verb method of a registered handler class, when
\* the analysis recorded no response the response map has exactly one entry,
\* 204 -> NoContent for DELETE (whatever the default schema), 201 for POST and
\* 200 for any other verb, with the declared default schema or Unknown; when
\* the analysis recorded any response, the response map is the recorded one.
C23_ResponseFallback ==
    Registered
    => LET ms == views[class_node.name].methods
           cs == ClassSerializerOf(class_node)
       IN  \A i \in EffectiveItems(class_node) :
               LET verb == Upper(class_node.body[i].name)
                   a == ItemAnalysis(class_node, i)
                   details == ms[verb].response_details
               IN  IF DOMAIN a.responses = {} THEN
                       /\ DOMAIN details = {DefaultStatus(verb)}
                       /\ details[DefaultStatus(verb)].serializer =
                              IF verb = "DELETE" THEN "NoContent"
                              ELSE IF Falsy(cs) THEN "Unknown" ELSE cs
                   ELSE details = a.responses

\* a class with a declared default schema whose explicit DELETE analyses to
\* no response and gets 204 -> NoContent, and whose explicit GET keeps the
\* single 400 entry its analysis recorded
C23_Witness ==
    /\ Registered
    /\ ClassSerializerOf(class_node) = "ProfileSerializer"
    /\ DOMAIN views[class_node.name].methods = {"DELETE", "GET"}
    /\ \A i \in DOMAIN class_node.body :
           class_node.body[i].name = "delete"
           => DOMAIN ItemAnalysis(class_node, i).responses = {}
    /\ views[class_node.name].methods["DELETE"].response_details =
           ("204" :> [serializer |-> "NoContent", source |-> "no_content"])
    /\ DOMAIN views[class_node.name].methods["GET"].response_details = {"400"}
    /\ views[class_node.name].methods["GET"].res_source = "composite"


(***************************************************************************)
(* Properties of the order of the scan phases, under SpecScan.             *)
(***************************************************************************)
\* the models every model file of the tree declares
AllModels(t) ==
    LET fs == PhaseFiles(LoadingFiles(t), "models", EmptyDict) IN
    MergeAll(EmptyDict, [i \in DOMAIN fs |-> ModelsOfFile(SourceFiles[fs[i].path])])

\* the signatures every service file of the tree declares
AllServices(t) ==
    LET fs == PhaseFiles(LoadingFiles(t), "services", EmptyDict) IN
    MergeAll(EmptyDict, [i \in DOMAIN fs |-> ServicesOfFile(SourceFiles[fs[i].path])])

\* the handler classes every handler file of the tree declares
AllHandlers(t) ==
    LET fs == PhaseFiles(LoadingFiles(t), "views", AllServices(t)) IN
    MergeAll(EmptyDict,
             [i \in DOMAIN fs |-> ViewsOfFile(SourceFiles[fs[i].path], AllServices(t))])

\* the routes every route file of the tree declares
AllRoutes(t) == DeclaredRoutes(PhaseFiles(LoadingFiles(t), "urls", EmptyDict))

PhaseOrder == <<"models", "serializers", "services", "views", "urls", "linking", "done">>

PhaseIndex(phase) == CHOOSE i \in DOMAIN PhaseOrder : PhaseOrder[i] = phase

\* C24: the phases of a scan run forward, each on completed inputs: the schema
\* map changes only in the schema phase and the models map is then that of
\* every model file; the handler map changes only in the handler phase and the
\* service map is then that of every service file; the endpoint list changes
\* only while linking, when every handler file and every route file has been
\* scanned; the models map and the service map change only in their own
\* phase.
C24_PhasesRunForward ==
    /\ [](PhaseIndex(scan_phase) > PhaseIndex("models")
            => models_map = AllModels(scan_tree))
    /\ [](PhaseIndex(scan_phase) > PhaseIndex("services")
            => service_map = AllServices(scan_tree))
    /\ [](PhaseIndex(scan_phase) > PhaseIndex("urls")
            => /\ all_views = AllHandlers(scan_tree)
               /\ all_urls = AllRoutes(scan_tree))
    /\ [][/\ PhaseIndex(scan_phase') >= PhaseIndex(scan_phase)
          /\ models_map' # models_map => scan_phase = "models"
          /\ serializers_map' # serializers_map => scan_phase = "serializers"
          /\ service_map' # service_map => scan_phase = "services"
          /\ all_views' # all_views => scan_phase = "views"
          /\ all_urls' # all_urls => scan_phase = "urls"
          /\ final_docs' # final_docs => scan_phase = "linking"]_vars

\* the handler phase at work on a tree with a service file: a handler method
\* that calls the service has been analysed against the complete service map
C24_Witness ==
    /\ scan_phase = "views"
    /\ service_map # EmptyDict
    /\ service_map = AllServices(scan_tree)
    /\ "SearchView" \in DOMAIN all_views
    /\ all_views["SearchView"].methods["POST"].request = "InSerializer"


(***************************************************************************)
(* Properties of the merge of a file's result, under SpecBroken.           *)
(***************************************************************************)
\* the handler classes a file declares
HandlerClasses(file) ==
    {file.classes[i].name : i \in {j \in DOMAIN file.classes : IsViewClass(file.classes[j])}}

\* the analysis of some verb method of some handler class of the file raises
HandlerFileRaises(file, smap) ==
    \E i \in DOMAIN file.classes :
        /\ IsViewClass(file.classes[i])
        /\ \E j \in DOMAIN file.classes[i].body :
               LET item == file.classes[i].body[j] IN
               /\ item.kind = "FunctionDef"
               /\ item.name \in VerbMethodNames
               /\ analyze_method_logic(item.body, ClassSerializerOf(file.classes[i]),
                                       item.name, smap).raised

\* some route call of the file has no second argument
RouteFileRaises(file) ==
    \E i \in DOMAIN file.urlpatterns :
        file.urlpatterns[i].func \in {"path", "re_path"} /\ file.urlpatterns[i].nargs < 2

\* C25: every iteration of a phase's loop either leaves the aggregate of the
\* phase as it was or merges the complete result of the file: when the file
\* does not load or its analysis raises at any point, the aggregate is
\* unchanged; otherwise a route file adds all its routes, contiguous and in
\* declaration order, and a handler file adds all its handler classes.
C25_FileMergeAllOrNothing ==
    [][(scan_phase \in {"models", "serializers", "services", "views", "urls"}
        /\ scan_pos <= Len(scan_tree))
       => LET entry == scan_tree[scan_pos]
              file == SourceFiles[entry.path]
              skipped == entry.loads # "ok" \/ Excluded(file)
          IN  /\ scan_phase = "models"
                 => models_map' = IF skipped \/ ~IsModelsPath(file) THEN models_map
                                  ELSE Update(models_map, ModelsOfFile(file))
              /\ scan_phase = "serializers"
                 => serializers_map' =
                        IF skipped THEN serializers_map
                        ELSE Update(serializers_map, SerializersOfFile(file, models_map))
              /\ scan_phase = "services"
                 => service_map' = IF skipped \/ ~IsServicePath(file) THEN service_map
                                   ELSE Update(service_map, ServicesOfFile(file))
              /\ scan_phase = "views"
                 => IF skipped \/ HandlerFileRaises(file, service_map)
                    THEN all_views' = all_views
                    ELSE DOMAIN all_views' = DOMAIN all_views \cup HandlerClasses(file)
              /\ scan_phase = "urls"
                 => all_urls' = IF skipped \/ ~IsUrlsPath(file) \/ RouteFileRaises(file)
                                THEN all_urls
                                ELSE all_urls \o DeclaredRoutes(<<entry>>)]_vars

\* a route file whose second route call raises after its first route was
\* found, and a handler file whose second class raises after its first was
\* extracted, contribute nothing; the route file after them contributes both
\* its routes
C25_Witness ==
    /\ ScanDone
    /\ Len(scan_tree) = 3
    /\ scan_tree[1] = [path |-> "broken/urls.py", loads |-> "ok"]
    /\ scan_tree[2] = [path |-> "api/views.py", loads |-> "ok"]
    /\ scan_tree[3] = [path |-> "api/urls.py", loads |-> "ok"]
    /\ all_views = EmptyDict
    /\ Len(all_urls) = 2
    /\ all_urls = DeclaredRoutes(<<scan_tree[3]>>)


(***************************************************************************)
(* Properties of delegating routes, under SpecInclude.                     *)
(***************************************************************************)
RECURSIVE RouteCalls(_)
\* the route calls the files declare, file after file, in declaration order
RouteCalls(files) ==
    IF files = <<>> THEN <<>>
    ELSE SelectSeq(SourceFiles[Head(files).path].urlpatterns,
                   LAMBDA c : c.func \in {"path", "re_path"})
         \o RouteCalls(Tail(files))

\* the routes that name a handler themselves and whose handler was extracted
LinkedPlainRoutes(t, handlers) ==
    SelectSeq(RouteCalls(RouteFiles(t)),
              LAMBDA c : c.vkind # "Include" /\ get_view_name_from_node(c) \in DOMAIN handlers)

\* C26: after a scan every route call that delegates with include(...) is in
\* the route list with the handler reference INCLUDE, and the endpoint list
\* has exactly the endpoints of the routes that name a handler themselves: a
\* delegating route gives no endpoint, whatever handler classes were
\* extracted.
C26_IncludeNeverLinked ==
    ScanDone
    => LET calls == RouteCalls(RouteFiles(scan_tree))
           plain == LinkedPlainRoutes(scan_tree, all_views)
       IN  /\ Len(all_urls) = Len(calls)
           /\ \A i \in DOMAIN calls :
                  calls[i].vkind = "Include"
                  => all_urls[i] = [path |-> Append(calls[i].route, "*"), view |-> "INCLUDE"]
           /\ Len(final_docs) = Len(plain)
           /\ \A i \in DOMAIN plain :
                  final_docs[i].path = <<"/">> \o Lstrip(plain[i].route)


(***************************************************************************)
(* Properties of the precedence between returns and service calls, under   *)
(* SpecCalls.                                                              *)
(***************************************************************************)
\* statement i is a call of a service of the map that declares an output and
\* that visit_Call reaches: the method is not named get
ServiceCallAt(i) ==
    LET e == method_node[i].value IN
    /\ method_node[i].stmt \in {"Expr", "Assign"}
    /\ e.node = "Call" /\ e.func = "Attribute" /\ e.base = "Name" /\ e.attr # "get"
    /\ ServiceKey(e) \in DOMAIN service_map
    /\ ~Falsy(service_map[ServiceKey(e)].output)

\* statement j is a return Response(...) for status 200 whose payload
\* resolves to a descriptor
ResolvedReturnAt(j) ==
    /\ method_node[j].stmt = "Return"
    /\ IsResponseCall(method_node[j].value)
    /\ ResolveStatus(method_node[j].value) = "200"
    /\ ReturnWrites(VisitorBefore(j), method_node[j].value)

\* the body with the statements i and j exchanged
Swapped(body, i, j) ==
    [k \in DOMAIN body |-> IF k = i THEN body[j] ELSE IF k = j THEN body[i] ELSE body[k]]

\* C27: after the walk of a body with a matched service call that declares
\* an output and a return for status 200 whose payload resolves, the 200
\* entry is the one of the last such return, whether the service call is
\* walked before or after it; and exchanging a service call with the return
\* next to it gives the same 200 entry.
C27_ReturnBeatsService ==
    WalkReturned
    => \A i, j \in DOMAIN method_node :
           (/\ ServiceCallAt(i)
            /\ ResolvedReturnAt(j)
            /\ \A k \in DOMAIN method_node : ResolvedReturnAt(k) => k <= j)
           => /\ analysis[1].responses["200"] =
                     ReturnEntry(VisitorBefore(j), method_node[j].value)
              /\ (i = j + 1 \/ j = i + 1)
                 => analyze_method_logic(Swapped(method_node, i, j), class_serializer,
                                         method_name, service_map).responses["200"]
                        = analysis[1].responses["200"]

\* the service call is walked first and records its output under 200, the
\* return after it overwrites the entry
C27_Witness ==
    /\ WalkReturned
    /\ method_node = <<Assign("serializer", SerCall("UserSerializer", "kw_data")),
                       ExprStmt(NameMethodCall("UserService", "create", "", "pos_request")),
                       Return(ResponseCall("NameData", "serializer", <<>>, "none", ""))>>
    /\ VisitorBefore(3).responses["200"].serializer = "OutSerializer"
    /\ analysis[1].responses["200"] = [serializer |-> "UserSerializer", source |-> "inferred"]


(***************************************************************************)
(* Properties of the query-parameter set, under SpecQuery.                 *)
(***************************************************************************)
\* the names bound to the request's query-parameter container before
\* statement i
AliasesBefore(i) ==
    {method_node[k].target : k \in {j \in 1..(i - 1) :
        /\ method_node[j].stmt = "Assign"
        /\ method_node[j].value.node = "Attribute"
        /\ method_node[j].value.base = "Name"
        /\ method_node[j].value.id = "request"
        /\ method_node[j].value.attr \in QueryParamAttrs}}

\* the literal key statement i reads from the query-parameter container,
\* directly or through an alias; "" when it reads none
LiteralKeyAt(i) ==
    LET e == method_node[i].value
        reads == e.node = "Subscript" \/ (e.node = "Call" /\ e.func = "Attribute" /\ e.attr = "get")
    IN  IF reads /\ e.base = "Attribute" /\ e.id = "request" /\ e.battr \in QueryParamAttrs
        THEN e.key
        ELSE IF reads /\ e.base = "Name" /\ e.id \in AliasesBefore(i) THEN e.key
        ELSE ""

\* statement i calls a service of the map and passes it the request
ForwardingCallAt(i) ==
    LET e == method_node[i].value IN
    /\ e.node = "Call" /\ e.func = "Attribute" /\ e.base = "Name"
    /\ ServiceKey(e) \in DOMAIN service_map
    /\ e.arg \in {"pos_request", "kw_request"}

\* the query-parameter set the first n statements of the body give
ExpectedQueryParams(n) ==
    ({LiteralKeyAt(i) : i \in 1..n} \ {""})
    \cup UNION {Range(service_map[ServiceKey(method_node[i].value)].query_params) :
                   i \in {j \in 1..n : ForwardingCallAt(j)}}

\* C28: during the walk the query-parameter set only grows, and after it the
\* set is the union of the literal keys read from the query-parameter
\* container, directly or through an alias, and of the declared keys of the
\* matched service calls that were passed the request.
C28_QueryParamsMerged ==
    /\ [](WalkReturned => visitor.query_params = ExpectedQueryParams(Len(method_node)))
    /\ [][visitor.query_params \subseteq visitor.query_params']_vars


(***************************************************************************)
(* Properties of the selection of model fields, under SpecSelect.          *)
(***************************************************************************)
\* the Meta blocks of a schema class body
MetaBlocks(node) == SelectSeq(node.body, LAMBDA item : item.kind = "Meta")

\* the names a Meta block selects among the fields of the models map: all
\* the fields of its model, the names it lists that are fields of its
\* model, or none when it names no model of the map or selects nothing
SelectedNames(meta, mmap) ==
    IF meta.model_kind \in {"Name", "Attribute"} /\ meta.model \in DOMAIN mmap THEN
        IF meta.fields_kind = "all" THEN DOMAIN mmap[meta.model]
        ELSE IF meta.fields_kind \in {"List", "Tuple"}
        THEN Range(meta.fields) \cap DOMAIN mmap[meta.model]
        ELSE {}
    ELSE {}

\* C29: when the body of a schema class with one Meta block has been
\* scanned, the merge makes the schema's field names the explicit ones
\* united with the model fields the block selects (all of them, or the
\* listed names that are model fields; none when the block names no model,
\* a model absent from the map, or no selection), and every field merged in
\* has the model's descriptor.
C29_MergeSelection ==
    [][(ser_pc = "scanning" /\ ser_pc' = "done" /\ Len(MetaBlocks(ser_node)) = 1)
       => LET E == DOMAIN FieldsOf(scanner, ser_node.name)
              meta == MetaBlocks(ser_node)[1]
              after == FieldsOf(scanner', ser_node.name)
          IN  /\ DOMAIN after = E \cup SelectedNames(meta, models_map)
              /\ \A f \in DOMAIN after \ E : after[f] = models_map[meta.model][f]]_vars


(***************************************************************************)
(* Properties of the variable-binding environment, under SpecBinds.        *)
(***************************************************************************)
RECURSIVE BoundAfter(_, _)
\* the most recent schema binding of a name after the first k statements
\* of the body: [class, type], both None when the name was never bound
BoundAfter(name, k) ==
    IF k = 0 THEN [class |-> None, type |-> None]
    ELSE LET st == method_node[k]
             e == st.value
         IN  IF st.stmt = "Assign" /\ st.target = name THEN
                 IF e.node = "Call" /\ e.func = "Name" /\ HasSerializerMarker(e.id)
                 THEN [class |-> e.id, type |-> "instance"]
                 ELSE IF /\ e.node = "Attribute" /\ e.attr = "data" /\ e.base = "Name"
                         /\ BoundAfter(e.id, k - 1).type = "instance"
                 THEN [class |-> BoundAfter(e.id, k - 1).class, type |-> "data"]
                 ELSE BoundAfter(name, k - 1)
             ELSE BoundAfter(name, k - 1)

BoundNames == {"s", "d", "other"}

\* the returns of the body whose payload is a name, or .data of a name,
\* that has a schema binding when the return is reached
BoundReturns ==
    {j \in DOMAIN method_node :
        /\ method_node[j].stmt = "Return"
        /\ method_node[j].value.pnode \in {"Name", "NameData"}
        /\ BoundAfter(method_node[j].value.pid, j - 1).class # None}

\* C30: during the walk of a method no step removes a binding or binds a
\* name to anything but a schema class; at every point of the walk each name
\* is bound to the class of its most recent schema binding, also after it
\* was reassigned to a value that binds nothing; and after the walk the 200
\* entry is the class the name of the last such return was most recently
\* bound to.
C30_BindingsPersist ==
    /\ [][\A n \in DOMAIN visitor.vars :
              /\ n \in DOMAIN visitor'.vars
              /\ HasSerializerMarker(visitor'.vars[n].class)]_vars
    /\ [](\A n \in BoundNames :
              IF BoundAfter(n, walk_pos - 1).class = None THEN n \notin DOMAIN visitor.vars
              ELSE /\ n \in DOMAIN visitor.vars
                   /\ visitor.vars[n] = BoundAfter(n, walk_pos - 1))
    /\ []((WalkReturned /\ BoundReturns # {})
            => LET j == Max(BoundReturns) IN
               analysis[1].responses["200"].serializer =
                   BoundAfter(method_node[j].value.pid, j - 1).class)

\* s is bound to a schema, reassigned to a constant, and returned: the
\* return resolves to the schema
C30_Witness ==
    /\ WalkReturned
    /\ method_node = <<Assign("s", SerCall("UserSerializer", "pos_other")),
                       Assign("s", NoExpr),
                       Return(ResponseCall("Name", "s", <<>>, "none", ""))>>
    /\ visitor.vars["s"].class = "UserSerializer"
    /\ analysis[1].responses["200"].serializer = "UserSerializer"

====
